---- MODULE Spec2Model ----
(***************************************************************************)
(* A model of the Str2D library (src/str2d/__init__.py): grids of          *)
(* (char, alpha) cells with alignment and fill, their construction,        *)
(* padding, composition and orientation transformations, and the Str3D     *)
(* stack whose view is resolved by visibility.                             *)
(*                                                                         *)
(* A numpy array of shape (h, w) is the record                             *)
(*   [h |-> h, w |-> w, at |-> [<<i, j>> \in (0..h-1) \X (0..w-1) |-> cell]]*)
(* so that a shape with one extent 0 keeps its other extent, as in numpy.  *)
(* A cell of the structured dtype is [char |-> c, alpha |-> a].            *)
(* A Python str is a sequence of one-character strings.                    *)
(***************************************************************************)
EXTENDS Integers, Sequences, FiniteSets, TLC

VARIABLES
    source,     \* Str3D.source: the list of layers the stack was built from
    data3,      \* Str3D.data: the np.stack of the layers' arrays
    stackedFrom,    \* the layers Str3D.data was last stacked from (history)
    viewed,     \* the grid returned by the last read of Str3D.view, <<>> before
    G,          \* the Str2D an attribute chain is evaluated on
    cur,        \* the Str2D the chain has produced so far
    chain,      \* the transformation letters applied so far
    more,       \* TRUE once the chain is longer than MaxChain
    call,       \* the library call evaluated last, with its arguments
    result,     \* what that call returned
    heap,       \* the buffers numpy has allocated: buffer id -> cells
    grids,      \* the Str2D objects a caller holds, their data an array over a buffer
    mask,       \* a Mask: its size and its _mask
    punched     \* how many _punch_mask calls on the Mask have succeeded (history)

vars == <<source, data3, stackedFrom, viewed, G, cur, chain, more, call, result,
          heap, grids, mask, punched>>
stackVars == <<source, data3, stackedFrom, viewed>>
chainVars == <<G, cur, chain, more>>
callVars == <<call, result>>
heapVars == <<heap, grids>>
maskVars == <<mask, punched>>

----------------------------------------------------------------------------
(* Bounds of the model *)

MaxHeight == 2
MaxWidth == 2
MaxLayers == 3
MaxChain == 4
\* cells of one layer of a stack or of a transformed grid, and of one operand
\* of a binary call
MaxArea == 4
MaxCells == 2
\* text length and the largest min_width / min_height, x / y and repeat count
MaxText == 4
MaxMin == 3
MaxPad == 2
MaxTimes == 3
MaxJoin == 3
MaxStr == 3
MaxIdx == 3
MaxCuts == 2
MaxRoll == 4
MaxExtent == 3
MaxData == 2
MaxSource == 3

Chars == {"a", "b"}
HAligns == {"left", "center", "right"}
VAligns == {"top", "middle", "bottom"}

Max(a, b) == IF a >= b THEN a ELSE b
Min(a, b) == IF a <= b THEN a ELSE b

----------------------------------------------------------------------------
(* numpy arrays of the structured dtype *)

Cell(c, a) == [char |-> c, alpha |-> a]

Idx(h, w) == (0 .. (h - 1)) \X (0 .. (w - 1))

\* every array of shape (h, w) over the given cells
ArraysOf(h, w, cells) ==
    {[h |-> h, w |-> w, at |-> f] : f \in [Idx(h, w) -> cells]}

IsError(x) == "error" \in DOMAIN x

ValueError == [error |-> "ValueError"]

\* the 'char' field of a structured array: data["char"]
CharField(arr) == [h |-> arr.h, w |-> arr.w,
                   at |-> [p \in Idx(arr.h, arr.w) |-> arr.at[p].char]]

\* the 'alpha' field of a structured array: data["alpha"]
AlphaField(arr) == [h |-> arr.h, w |-> arr.w,
                    at |-> [p \in Idx(arr.h, arr.w) |-> arr.at[p].alpha]]

----------------------------------------------------------------------------
(* Validation *)

FillNone == [kind |-> "None"]
FillStr(s) == [kind |-> "str", char |-> s]
FillTuple(s, a) == [kind |-> "tuple", char |-> s, alpha |-> a]

\* Str2D.validate_fill: the fill as the cell (char, alpha), or ValueError
validate_fill(fill) ==
    IF fill.kind = "None" THEN Cell(" ", 0)
    ELSE LET fill_char == fill.char
             fill_alpha == IF fill.kind = "str" THEN 0 ELSE fill.alpha
         IN  IF Len(fill_char) # 1 THEN ValueError
             ELSE IF fill_alpha \notin {0, 1} THEN ValueError
             ELSE Cell(fill_char[1], fill_alpha)

\* str.lower on the alignment tokens a caller passes
Lower(s) ==
    CASE s = "LEFT" -> "left"
      [] s = "leFt" -> "left"
      [] s = "Center" -> "center"
      [] s = "RIGHT" -> "right"
      [] s = "Top" -> "top"
      [] s = "MIDDLE" -> "middle"
      [] s = "Bottom" -> "bottom"
      [] OTHER -> s

\* validate_halign taking every name
validate_halign_any(halign) == Lower(halign)

\* Str2D.validate_halign
validate_halign(halign) ==
    IF Lower(halign) \notin {"left", "center", "right"} THEN "ValueError"
    ELSE Lower(halign)

\* Str2D.validate_valign
validate_valign(valign) ==
    IF Lower(valign) \notin {"top", "middle", "bottom"} THEN "ValueError"
    ELSE Lower(valign)

----------------------------------------------------------------------------
(* Padding *)

Clamp(i, n) == IF i < 0 THEN 0 ELSE IF i > n - 1 THEN n - 1 ELSE i

\* Str2D.struct_pad(array, ((top, bottom), (left, right)), fill=fill, mode=mode):
\* np.pad of the char and of the alpha field, recombined.  In constant mode a
\* new cell is the fill; in edge mode it repeats the nearest cell of the
\* array, which numpy refuses on an empty axis that is to be extended.
struct_pad(array, top, bottom, left, right, fill, mode) ==
    LET h == array.h + top + bottom
        w == array.w + left + right
        inside(p) == /\ p[1] - top \in 0 .. (array.h - 1)
                     /\ p[2] - left \in 0 .. (array.w - 1)
    IN  IF mode = "constant"
        THEN [h |-> h, w |-> w,
              at |-> [p \in Idx(h, w) |->
                        IF inside(p) THEN array.at[<<p[1] - top, p[2] - left>>]
                        ELSE fill]]
        ELSE IF \/ (array.h = 0 /\ top + bottom > 0)
                \/ (array.w = 0 /\ left + right > 0)
        THEN ValueError
        ELSE [h |-> h, w |-> w,
              at |-> [p \in Idx(h, w) |->
                        array.at[<<Clamp(p[1] - top, array.h),
                                   Clamp(p[2] - left, array.w)>>]]]

----------------------------------------------------------------------------
(* Construction *)

RECURSIVE SplitFrom(_, _, _, _)
SplitFrom(s, i, line, acc) ==
    IF i > Len(s) THEN (IF line # <<>> THEN Append(acc, line) ELSE acc)
    ELSE IF s[i] = "\n" THEN SplitFrom(s, i + 1, <<>>, Append(acc, line))
    ELSE SplitFrom(s, i + 1, Append(line, s[i]), acc)

\* str.splitlines: the lines of s, without a last empty line
splitlines(s) == SplitFrom(s, 1, <<>>, <<>>)

RECURSIVE MaxLen(_)
MaxLen(rows) ==
    IF rows = <<>> THEN 0 ELSE Max(Len(Head(rows)), MaxLen(Tail(rows)))

\* StartOf giving the odd cell of a centred block to the front
StartOf_ceil(align, total, len) ==
    IF align \in {"center", "middle"} THEN (total - len + 1) \div 2
    ELSE IF align \in {"right", "bottom"} THEN total - len
    ELSE 0

\* start of a block of extent `len` in an extent `total` (struct_array_from_string)
StartOf(align, total, len) ==
    IF align \in {"center", "middle"} THEN (total - len) \div 2
    ELSE IF align \in {"right", "bottom"} THEN total - len
    ELSE 0

\* Str2D.struct_array_from_string(string, min_width, min_height, halign, valign, fill)
struct_array_from_string(string, min_width, min_height, halign, valign, fill) ==
    LET pre_data == splitlines(string)
        data_width == MaxLen(pre_data)
        data_height == Len(pre_data)
        width == Max(data_width, min_width)
        height == Max(data_height, min_height)
        start_v == StartOf(valign, height, data_height)
        start(r) == StartOf(halign, width, Len(pre_data[r]))
        \* the row of pre_data that writes cell p, if any
        writers(p) == {r \in 1 .. data_height :
                          /\ p[1] = start_v + r - 1
                          /\ p[2] - start(r) \in 0 .. (Len(pre_data[r]) - 1)}
    IN  [h |-> height, w |-> width,
         at |-> [p \in Idx(height, width) |->
                   IF writers(p) = {} THEN fill
                   ELSE LET r == CHOOSE x \in writers(p) : TRUE
                        IN  Cell(pre_data[r][p[2] - start(r) + 1], 1)]]

\* the `data` argument of Str2D(...), by its Python type
FromArray(arr) == [kind |-> "ndarray", arr |-> arr]
FromStr(s) == [kind |-> "str", s |-> s]
FromStr2D(g) == [kind |-> "Str2D", obj |-> g]

\* Str2D.struct_array_from_char_array: every character becomes a visible cell
struct_array_from_char_array(array) ==
    [h |-> array.h, w |-> array.w,
     at |-> [p \in Idx(array.h, array.w) |-> Cell(array.at[p], 1)]]

\* an array of characters (dtype '<U1') as the data argument
FromChars(array) == [kind |-> "chars", arr |-> array]

\* Str2D.parse: a structured array is copied, a Str2D gives its array, an
\* array of characters goes through struct_array_from_char_array, a string
\* is laid out by struct_array_from_string
parse(data, min_width, min_height, halign, valign, fill) ==
    IF data.kind = "Str2D" THEN data.obj.data
    ELSE IF data.kind = "ndarray" THEN data.arr
    ELSE IF data.kind = "chars" THEN struct_array_from_char_array(data.arr)
    ELSE struct_array_from_string(data.s, min_width, min_height, halign, valign, fill)

\* ndarray.shape: an array of one dimension is [n |-> n, at |-> <<cell, ..>>]
shape(arr) == IF "h" \in DOMAIN arr THEN <<arr.h, arr.w>> ELSE <<arr.n>>

\* the end of Str2D.__init__: the parsed array is padded up to
\* (min_height, min_width) by the alignments and becomes self.data.  min_width
\* and min_height None are 0 (`min_width or 0`).  Unpacking the shape of a
\* parsed array that has not two dimensions is a ValueError.
pad_to_min(parsed, min_width, min_height, halign, valign, fill) ==
    IF Len(shape(parsed)) # 2 THEN ValueError
    ELSE
    LET height_input == parsed.h
        width_input == parsed.w
        height_data == Max(height_input, min_height)
        width_data == Max(width_input, min_width)
        left == IF halign = "center" THEN (width_data - width_input) \div 2
                ELSE IF halign = "right" THEN width_data - width_input
                ELSE 0
        right == IF halign = "right" THEN 0
                 ELSE width_data - width_input - left
        top == IF valign = "middle" THEN (height_data - height_input) \div 2
               ELSE IF valign = "bottom" THEN height_data - height_input
               ELSE 0
        bottom == IF valign = "bottom" THEN 0
                  ELSE height_data - height_input - top
    IN  [data |-> struct_pad(parsed, top, bottom, left, right, fill, "constant"),
         halign |-> halign, valign |-> valign, fill |-> fill]

\* Str2D.__init__: validation first, then parse, then the padding of the
\* parsed array
Str2D(data, min_width, min_height, halign0, valign0, fill0) ==
    LET fill == validate_fill(fill0)
        halign == validate_halign(halign0)
        valign == validate_valign(valign0)
    IN  IF IsError(fill) \/ halign = "ValueError" \/ valign = "ValueError"
        THEN ValueError
        ELSE pad_to_min(parse(data, min_width, min_height, halign, valign, fill),
                        min_width, min_height, halign, valign, fill)

\* the fill of a grid as passed on by **self.kwargs or fill=self.fill
FillOf(g) == FillTuple(<<g.fill.char>>, g.fill.alpha)

\* Str2D(data=arr, **g.kwargs): Str2D.kwargs is halign, valign and fill
WithKwargs(arr, g) == Str2D(FromArray(arr), 0, 0, g.halign, g.valign, FillOf(g))

\* Str2D(arr): every keyword at its default
Str2DDefault(arr) == Str2D(FromArray(arr), 0, 0, "left", "top", FillNone)

height(g) == g.data.h
width(g) == g.data.w

----------------------------------------------------------------------------
(* numpy operations on arrays *)

\* ndarray.T
Transpose(arr) ==
    [h |-> arr.w, w |-> arr.h,
     at |-> [p \in Idx(arr.w, arr.h) |-> arr.at[<<p[2], p[1]>>]]]

\* np.fliplr
fliplr(arr) ==
    [h |-> arr.h, w |-> arr.w,
     at |-> [p \in Idx(arr.h, arr.w) |-> arr.at[<<p[1], arr.w - 1 - p[2]>>]]]

\* np.flipud
flipud(arr) ==
    [h |-> arr.h, w |-> arr.w,
     at |-> [p \in Idx(arr.h, arr.w) |-> arr.at[<<arr.h - 1 - p[1], p[2]>>]]]

\* np.hstack((a, b)): concatenation along axis 1, refused when the heights differ
hstack2(a, b) ==
    IF a.h # b.h THEN ValueError
    ELSE [h |-> a.h, w |-> a.w + b.w,
          at |-> [p \in Idx(a.h, a.w + b.w) |->
                    IF p[2] < a.w THEN a.at[p] ELSE b.at[<<p[1], p[2] - a.w>>]]]

\* np.vstack((a, b)): concatenation along axis 0, refused when the widths differ
vstack2(a, b) ==
    IF a.w # b.w THEN ValueError
    ELSE [h |-> a.h + b.h, w |-> a.w,
          at |-> [p \in Idx(a.h + b.h, a.w) |->
                    IF p[1] < a.h THEN a.at[p] ELSE b.at[<<p[1] - a.h, p[2]>>]]]

RECURSIVE hstack(_)
\* np.hstack of a list of arrays; an empty list is refused
hstack(arrs) ==
    IF arrs = <<>> THEN ValueError
    ELSE IF Len(arrs) = 1 THEN arrs[1]
    ELSE LET rest == hstack(Tail(arrs))
         IN  IF IsError(rest) THEN rest ELSE hstack2(arrs[1], rest)

RECURSIVE vstack(_)
\* np.vstack of a list of arrays; an empty list is refused
vstack(arrs) ==
    IF arrs = <<>> THEN ValueError
    ELSE IF Len(arrs) = 1 THEN arrs[1]
    ELSE LET rest == vstack(Tail(arrs))
         IN  IF IsError(rest) THEN rest ELSE vstack2(arrs[1], rest)

\* the Python list [x] * n (empty for n <= 0)
ListTimes(x, n) == [k \in 1 .. n |-> x]

----------------------------------------------------------------------------
(* Transformations *)

\* _align_transpose with "right" sent to "top"
_align_transpose_typo ==
    [top |-> "left", middle |-> "center", bottom |-> "right",
     left |-> "top", center |-> "middle", right |-> "top"]

\* Str2D._align_transpose
_align_transpose ==
    [top |-> "left", middle |-> "center", bottom |-> "right",
     left |-> "top", center |-> "middle", right |-> "bottom"]

\* _align_horizontal that leaves "right" where it is
_align_horizontal_typo == [left |-> "right", center |-> "center", right |-> "right"]

\* Str2D._align_horizontal
_align_horizontal == [left |-> "right", center |-> "center", right |-> "left"]

\* _align_vertical that leaves "bottom" where it is
_align_vertical_typo == [top |-> "bottom", middle |-> "middle", bottom |-> "bottom"]

\* Str2D._align_vertical
_align_vertical == [top |-> "bottom", middle |-> "middle", bottom |-> "top"]

\* t passing on the alignments as they are, like **self.kwargs
t_keeping_alignment(g) ==
    Str2D(FromArray(Transpose(g.data)), 0, 0, g.halign, g.valign, FillOf(g))

\* Str2D.t
t(g) == Str2D(FromArray(Transpose(g.data)), 0, 0,
              _align_transpose[g.valign], _align_transpose[g.halign], FillOf(g))

\* Str2D.i
i(g) == g

\* Str2D.h
h(g) == Str2D(FromArray(fliplr(g.data)), 0, 0,
              _align_horizontal[g.halign], g.valign, FillOf(g))

\* Str2D.v
v(g) == Str2D(FromArray(flipud(g.data)), 0, 0,
              g.halign, _align_vertical[g.valign], FillOf(g))

\* Str2D.r: self.t.h
r(g) == h(t(g))

\* getattr(g, p) for one transformation letter p
Attr(g, p) ==
    CASE p = "t" -> t(g)
      [] p = "i" -> i(g)
      [] p = "h" -> h(g)
      [] p = "v" -> v(g)
      [] p = "r" -> r(g)

RECURSIVE __getattr__(_, _)
\* Str2D.__getattr__(name): the first letter is applied, then the rest of the
\* name is looked up on the result
__getattr__(g, name) ==
    IF Len(name) = 1 THEN Attr(g, name[1])
    ELSE __getattr__(Attr(g, name[1]), Tail(name))

----------------------------------------------------------------------------
(* Padding and composition of grids *)

\* pad that leaves the fill of np.pad at its default, the blank hidden cell
pad_default_fill(g, top, bottom, left, right, fill, mode) ==
    LET padded_data == struct_pad(g.data, top, bottom, left, right, Cell(" ", 0), mode)
    IN  IF IsError(padded_data) THEN padded_data ELSE WithKwargs(padded_data, g)

\* Str2D.pad(((top, bottom), (left, right)), fill=fill, mode=mode)
pad(g, top, bottom, left, right, fill, mode) ==
    LET padded_data == struct_pad(g.data, top, bottom, left, right, fill, mode)
    IN  IF IsError(padded_data) THEN padded_data ELSE WithKwargs(padded_data, g)

\* expand giving the odd cell of a centred grid to the front
expand_ceil(g, x, y, mode) ==
    LET fill == validate_fill(FillOf(g))
        left == IF g.halign = "center" THEN (x + 1) \div 2
                ELSE IF g.halign = "right" THEN x ELSE 0
        top == IF g.valign = "middle" THEN (y + 1) \div 2
               ELSE IF g.valign = "bottom" THEN y ELSE 0
        right == x - left
        bottom == y - top
    IN  pad(g, top, bottom, left, right, fill, mode)

\* Str2D.expand(x, y, mode=mode): the fill is the grid's own
expand(g, x, y, mode) ==
    LET fill == validate_fill(FillOf(g))
        left == IF g.halign = "center" THEN x \div 2
                ELSE IF g.halign = "right" THEN x ELSE 0
        top == IF g.valign = "middle" THEN y \div 2
               ELSE IF g.valign = "bottom" THEN y ELSE 0
        right == x - left
        bottom == y - top
    IN  pad(g, top, bottom, left, right, fill, mode)

\* isinstance(other, str) for the operand of + and /
IsStr(other) == "kind" \in DOMAIN other

\* other = Str2D(data=other) for a str operand of + and /
Lifted(other) ==
    IF IsStr(other) THEN Str2D(other, 0, 0, "left", "top", FillNone) ELSE other

\* the mode in which + and / expand `other`
ModeOf(other) ==
    IF IsStr(other) /\ other.s # <<>> THEN "edge" ELSE "constant"

\* __add__ expanding `other` with the valign and fill of `self`
__add___self_kwargs(self, other, right_side) ==
    LET height_ == Max(height(self), height(other))
        left == expand(self, 0, height_ - height(self), "constant")
        right == expand([other EXCEPT !.valign = self.valign, !.fill = self.fill],
                        0, height_ - height(other), "constant")
        stacked == IF right_side THEN hstack(<<right.data, left.data>>)
                   ELSE hstack(<<left.data, right.data>>)
    IN  WithKwargs(stacked, self)

\* Str2D.__add__(self, other, right_side): a str `other` is lifted to
\* Str2D(data=other) and expanded in edge mode, in constant mode when it is ""
__add__(self, other, right_side) ==
    LET other_ == Lifted(other)
        height_ == Max(height(self), height(other_))
        left == expand(self, 0, height_ - height(self), "constant")
        right == expand(other_, 0, height_ - height(other_), ModeOf(other))
        stacked == IF right_side THEN hstack(<<right.data, left.data>>)
                   ELSE hstack(<<left.data, right.data>>)
    IN  IF IsError(right) THEN right ELSE WithKwargs(stacked, self)

\* __truediv__ building its result with the kwargs of the other operand
__truediv___kwargs_of_other(self, other, right_side) ==
    LET other_ == Lifted(other)
        width_ == Max(width(self), width(other_))
        left == expand(self, width_ - width(self), 0, "constant")
        right == expand(other_, width_ - width(other_), 0, ModeOf(other))
        stacked == IF right_side THEN vstack(<<right.data, left.data>>)
                   ELSE vstack(<<left.data, right.data>>)
    IN  IF IsError(right) THEN right ELSE WithKwargs(stacked, other_)

\* Str2D.__truediv__(self, other, right_side): a str `other` as in __add__
__truediv__(self, other, right_side) ==
    LET other_ == Lifted(other)
        width_ == Max(width(self), width(other_))
        left == expand(self, width_ - width(self), 0, "constant")
        right == expand(other_, width_ - width(other_), 0, ModeOf(other))
        stacked == IF right_side THEN vstack(<<right.data, left.data>>)
                   ELSE vstack(<<left.data, right.data>>)
    IN  IF IsError(right) THEN right ELSE WithKwargs(stacked, self)

\* Str2D.__radd__(self, other): other + self
__radd__(self, other) == __add__(self, other, TRUE)

\* Str2D.__rtruediv__(self, other): other / self
__rtruediv__(self, other) == __truediv__(self, other, TRUE)

TypeError == [error |-> "TypeError"]

\* sum(zip([sep] * len(args), args), ())[1:] when sep is not "": the
\* separator, a str, between each two of args
Interleave(args, sep) ==
    IF sep # <<>>
    THEN [k \in 1 .. (2 * Len(args) - 1) |->
            IF k % 2 = 1 THEN args[(k + 1) \div 2] ELSE FromStr(sep)]
    ELSE args

\* reduce(lambda x, y: x + y, args) continued from the value x
RECURSIVE reduce_add(_, _)
reduce_add(x, args) ==
    IF IsError(x) \/ args = <<>> THEN x
    ELSE reduce_add(__add__(x, Head(args), FALSE), Tail(args))

\* reduce(lambda x, y: x / y, args) continued from the value x
RECURSIVE reduce_truediv(_, _)
reduce_truediv(x, args) ==
    IF IsError(x) \/ args = <<>> THEN x
    ELSE reduce_truediv(__truediv__(x, Head(args), FALSE), Tail(args))

\* Str2D.join_h(*args, sep=sep): reduce of no operand is a TypeError
join_h(args, sep) ==
    LET args_ == Interleave(args, sep)
    IN  IF args_ = <<>> THEN TypeError
        ELSE reduce_add(Head(args_), Tail(args_))

\* Str2D.join_v(*args, sep=sep): Str2D() of no operand
join_v(args, sep) ==
    LET args_ == Interleave(args, sep)
    IN  IF args_ # <<>> THEN reduce_truediv(Head(args_), Tail(args_))
        ELSE Str2D(FromStr(<<>>), 0, 0, "left", "top", FillNone)

\* __mul__ stacking the copies vertically, as __rmul__ does
__mul___vstack(self, other) ==
    LET stacked == vstack(ListTimes(self.data, other))
    IN  IF IsError(stacked) THEN stacked ELSE WithKwargs(stacked, self)

\* Str2D.__mul__(self, other): self * other
__mul__(self, other) ==
    LET stacked == hstack(ListTimes(self.data, other))
    IN  IF IsError(stacked) THEN stacked ELSE WithKwargs(stacked, self)

\* Str2D.__rmul__(self, other): other * self
__rmul__(self, other) ==
    LET stacked == vstack(ListTimes(self.data, other))
    IN  IF IsError(stacked) THEN stacked ELSE WithKwargs(stacked, self)

\* numpy broadcasting of one extent of two shapes, -1 when they do not broadcast
BroadcastDim(m, n) ==
    IF m = n THEN m ELSE IF m = 1 THEN n ELSE IF n = 1 THEN m ELSE -1

\* Str2D.__eq__(self, other) for a Str2D `other`: the outcomes of
\* self.data["char"] == other.data["char"].  numpy compares element by element
\* after broadcasting; on shapes that do not broadcast it returns False
\* (numpy < 1.25) or raises (numpy >= 1.25), setup.py pins no version.
__eq__(self, other) ==
    LET a == CharField(self.data)
        b == CharField(other.data)
        hh == BroadcastDim(a.h, b.h)
        ww == BroadcastDim(a.w, b.w)
        pick(arr, p) == arr.at[<<IF arr.h = 1 THEN 0 ELSE p[1],
                                 IF arr.w = 1 THEN 0 ELSE p[2]>>]
    IN  IF hh < 0 \/ ww < 0
        THEN {[kind |-> "bool", val |-> FALSE], ValueError}
        ELSE {[kind |-> "ndarray", h |-> hh, w |-> ww,
               at |-> [p \in Idx(hh, ww) |-> pick(a, p) = pick(b, p)]]}

----------------------------------------------------------------------------
(* Indexing *)

IndexError == [error |-> "IndexError"]

\* the keys of G[key]: an int, a slice start:stop whose bounds are <<>> for
\* None and <<n>> for n, and a tuple of two of them
None == <<>>
IntKey(n) == [kind |-> "int", i |-> n]
SliceKey(a, b) == [kind |-> "slice", start |-> a, stop |-> b]
TupleKey(k1, k2) == [kind |-> "tuple", keys |-> <<k1, k2>>]

\* slice.indices: a bound of a slice on an axis of extent n
SliceBound(x, n, default) ==
    IF x = None THEN default
    ELSE IF x[1] < 0 THEN Max(x[1] + n, 0)
    ELSE Min(x[1], n)

\* OutOfBounds refusing also a slice with a bound outside -n .. n
OutOfBounds_slices(k, n) ==
    \/ k.kind = "int" /\ (k.i < -n \/ k.i >= n)
    \/ k.kind = "slice" /\ \E x \in {k.start, k.stop} :
                               x # None /\ (x[1] < -n \/ x[1] > n)

\* numpy refuses an integer index outside -n .. n-1 on an axis of extent n
OutOfBounds(k, n) == k.kind = "int" /\ (k.i < -n \/ k.i >= n)

\* the indices an int in bounds (as the list [k]) or a slice selects on an
\* axis of extent n
Take(k, n) ==
    IF k.kind = "int" THEN <<IF k.i < 0 THEN k.i + n ELSE k.i>>
    ELSE LET a == SliceBound(k.start, n, 0)
             b == SliceBound(k.stop, n, n)
         IN  [m \in 1 .. (b - a) |-> a + m - 1]

\* Str2D.__getitem__(self, key): a scalar k of the key becomes the list [k].
\* numpy pairs two lists element by element, so self.data[[i], [j]] is an
\* array of one dimension.
__getitem__(self, key) ==
    LET rowk == IF key.kind = "tuple" THEN key.keys[1] ELSE key
        colk == IF key.kind = "tuple" THEN key.keys[2] ELSE SliceKey(None, None)
        rows == Take(rowk, height(self))
        cols == Take(colk, width(self))
    IN  IF OutOfBounds(rowk, height(self)) \/ OutOfBounds(colk, width(self))
        THEN IndexError
        ELSE IF rowk.kind = "int" /\ colk.kind = "int"
        THEN WithKwargs([n |-> 1,
                         at |-> <<self.data.at[<<rows[1], cols[1]>>]>>], self)
        ELSE WithKwargs([h |-> Len(rows), w |-> Len(cols),
                         at |-> [p \in Idx(Len(rows), Len(cols)) |->
                                   self.data.at[<<rows[p[1] + 1], cols[p[2] + 1]>>]]],
                        self)

----------------------------------------------------------------------------
(* Splitting *)

\* the array of the rows and columns of arr listed in rows and cols
Sub(arr, rows, cols) ==
    [h |-> Len(rows), w |-> Len(cols),
     at |-> [p \in Idx(Len(rows), Len(cols)) |->
               arr.at[<<rows[p[1] + 1], cols[p[2] + 1]>>]]]

\* np.split dropping the sub-arrays that are empty
np_split_skip_empty(ary, indices, axis) ==
    LET Ntotal == IF axis = 0 THEN ary.h ELSE ary.w
        div_points == <<0>> \o indices \o <<Ntotal>>
        piece(m) == Take(SliceKey(<<div_points[m]>>, <<div_points[m + 1]>>), Ntotal)
        all == [m \in 1 .. (Len(indices) + 1) |->
                  IF axis = 0 THEN Sub(ary, piece(m), Take(SliceKey(None, None), ary.w))
                  ELSE Sub(ary, Take(SliceKey(None, None), ary.h), piece(m))]
        kept(a) == a.h * a.w > 0
    IN  SelectSeq(all, kept)

\* np.split(ary, indices, axis) for a list of indices: the sub-arrays
\* ary[st:end] along the axis for each two neighbours st, end of
\* [0] + indices + [Ntotal]
np_split(ary, indices, axis) ==
    LET Ntotal == IF axis = 0 THEN ary.h ELSE ary.w
        div_points == <<0>> \o indices \o <<Ntotal>>
        piece(m) == Take(SliceKey(<<div_points[m]>>, <<div_points[m + 1]>>), Ntotal)
    IN  [m \in 1 .. (Len(indices) + 1) |->
           IF axis = 0 THEN Sub(ary, piece(m), Take(SliceKey(None, None), ary.w))
           ELSE Sub(ary, Take(SliceKey(None, None), ary.h), piece(m))]

\* Str2D.split(indices_or_sections, axis) for a list of indices
split(self, indices_or_sections, axis) ==
    LET divided == np_split(self.data, indices_or_sections, axis)
    IN  [m \in 1 .. Len(divided) |-> WithKwargs(divided[m], self)]

\* Str2D.insert(indices_or_sections, axis, sep)
insert(self, indices_or_sections, axis, sep) ==
    IF axis = 0 THEN join_v(split(self, indices_or_sections, axis), sep)
    ELSE join_h(split(self, indices_or_sections, axis), sep)

----------------------------------------------------------------------------
(* Rolling *)

\* np.roll(a, shift, axis): the cell at index q of the axis comes from index
\* (q - shift) mod extent; an empty array is returned as it is
np_roll(a, shift, axis) ==
    [h |-> a.h, w |-> a.w,
     at |-> [q \in Idx(a.h, a.w) |->
               IF axis = 0 THEN a.at[<<(q[1] - shift) % a.h, q[2]>>]
               ELSE a.at[<<q[1], (q[2] - shift) % a.w>>]]]

\* roll shifting towards the start of the axis
roll_backwards(self, x, axis) ==
    Str2D(FromArray(np_roll(self.data, -x, axis)), 0, 0,
          self.halign, self.valign, FillOf(self))

\* Str2D.roll(x, axis)
roll(self, x, axis) ==
    Str2D(FromArray(np_roll(self.data, x, axis)), 0, 0,
          self.halign, self.valign, FillOf(self))

----------------------------------------------------------------------------
(* Rendering *)

\* "".join(row["char"]) for the row numbered k of an array
RowChars(arr, k) == [j \in 1 .. arr.w |-> arr.at[<<k, j - 1>>].char]

\* the rows numbered k and more of an array, each one ended by a line break
RECURSIVE EndedRowsFrom(_, _)
EndedRowsFrom(arr, k) ==
    IF k >= arr.h THEN <<>>
    ELSE RowChars(arr, k) \o <<"\n">> \o EndedRowsFrom(arr, k + 1)

\* __str__ ending the last row by a line break as well
__str___ended(self) == EndedRowsFrom(self.data, 0)

\* the rows numbered k and more of an array joined by "\n"
RECURSIVE JoinRowsFrom(_, _)
JoinRowsFrom(arr, k) ==
    IF k >= arr.h THEN <<>>
    ELSE (IF k > 0 THEN <<"\n">> ELSE <<>>)
            \o RowChars(arr, k) \o JoinRowsFrom(arr, k + 1)

\* Str2D.__str__(self)
__str__(self) == JoinRowsFrom(self.data, 0)

----------------------------------------------------------------------------
(* Str3D *)

\* np.stack stacking the arrays that have the shape of the first one
np_stack_alike(arrs) ==
    IF arrs = <<>> THEN ValueError
    ELSE LET alike(a) == a.h = arrs[1].h /\ a.w = arrs[1].w
             kept == SelectSeq(arrs, alike)
         IN  [n |-> Len(kept), h |-> arrs[1].h, w |-> arrs[1].w,
              at |-> [q \in (0 .. (Len(kept) - 1)) \X Idx(arrs[1].h, arrs[1].w) |->
                        kept[q[1] + 1].at[q[2]]]]

\* np.stack of a list of arrays: refused on an empty list and on arrays of
\* different shapes
np_stack(arrs) ==
    IF arrs = <<>> THEN ValueError
    ELSE IF \E k \in 1 .. Len(arrs) : arrs[k].h # arrs[1].h \/ arrs[k].w # arrs[1].w
    THEN ValueError
    ELSE [n |-> Len(arrs), h |-> arrs[1].h, w |-> arrs[1].w,
          at |-> [q \in (0 .. (Len(arrs) - 1)) \X Idx(arrs[1].h, arrs[1].w) |->
                    arrs[q[1] + 1].at[q[2]]]]

\* [datum.data for datum in data]
LayerArrays(layers) == [k \in 1 .. Len(layers) |-> layers[k].data]

\* argmax taking the last index of the largest value instead of the first
argmax_last(stack, p) ==
    CHOOSE k \in 0 .. (stack.n - 1) :
        /\ \A m \in 0 .. (stack.n - 1) :
              stack.at[<<m, p>>].alpha <= stack.at[<<k, p>>].alpha
        /\ \A m \in (k + 1) .. (stack.n - 1) :
              stack.at[<<m, p>>].alpha < stack.at[<<k, p>>].alpha

\* ndarray.argmax(axis=0) at one position: the first index of the largest value
argmax(stack, p) ==
    CHOOSE k \in 0 .. (stack.n - 1) :
        /\ \A m \in 0 .. (stack.n - 1) :
              stack.at[<<m, p>>].alpha <= stack.at[<<k, p>>].alpha
        /\ \A m \in 0 .. (k - 1) :
              stack.at[<<m, p>>].alpha < stack.at[<<k, p>>].alpha

\* view handing the selected characters alone to Str2D, which then marks
\* every cell visible
view_as_chars(stack) ==
    LET result_ == [h |-> stack.h, w |-> stack.w,
                    at |-> [p \in Idx(stack.h, stack.w) |->
                              Cell(stack.at[<<argmax(stack, p), p>>].char, 1)]]
    IN  Str2DDefault(result_)

\* Str3D.view: the cell (char and alpha) of the layer argmax selects at each
\* position, made a Str2D with every keyword at its default
view(stack) ==
    LET result_ == [h |-> stack.h, w |-> stack.w,
                    at |-> [p \in Idx(stack.h, stack.w) |->
                              stack.at[<<argmax(stack, p), p>>]]]
    IN  Str2DDefault(result_)

----------------------------------------------------------------------------
(* The stack: a Str3D is built from layers, then its view is read *)

Idle == <<>>
NoCall == [op |-> "none"]

\* the character that fills layer k (0-based) of a stack under test
LayerChars == <<"a", "b", "c", "d", "e">>

Shapes ==
    {s \in (0 .. MaxHeight) \X (0 .. MaxWidth) : s[1] * s[2] <= MaxArea}

\* Str3D.__init__(data)
InitStack ==
    /\ \E n \in 1 .. MaxLayers, s \in Shapes :
         \E al \in [(1 .. n) \X Idx(s[1], s[2]) -> {0, 1}] :
            LET layer(k) ==
                    Str2DDefault([h |-> s[1], w |-> s[2],
                                  at |-> [p \in Idx(s[1], s[2]) |->
                                            Cell(LayerChars[k], al[<<k, p>>])]])
                data == [k \in 1 .. n |-> layer(k)]
            IN  /\ source = data
                /\ data3 = np_stack(LayerArrays(data))
                /\ stackedFrom = data
    /\ viewed = Idle
    /\ G = Idle /\ cur = Idle /\ chain = Idle /\ more = FALSE
    /\ heap = Idle /\ grids = Idle /\ mask = Idle /\ punched = Idle
    /\ call = NoCall /\ result = Idle

\* a read of the property Str3D.view
ReadView ==
    /\ ~IsError(data3)
    /\ viewed' = <<view(data3)>>
    /\ UNCHANGED <<source, data3, stackedFrom, chainVars, callVars, heapVars, maskVars>>

NextStack == ReadView

SpecStack == InitStack /\ [][NextStack]_vars

----------------------------------------------------------------------------
(* A Str3D over a list of layers that its caller goes on changing *)

\* the layers a caller has: 'a' visible and 'b' not visible of one cell, 'c'
\* visible of two cells
LayerPool ==
    {Str2DDefault([h |-> 1, w |-> 1, at |-> [p \in Idx(1, 1) |-> Cell("a", 1)]]),
     Str2DDefault([h |-> 1, w |-> 1, at |-> [p \in Idx(1, 1) |-> Cell("b", 0)]]),
     Str2DDefault([h |-> 1, w |-> 2, at |-> [p \in Idx(1, 2) |-> Cell("c", 1)]])}

\* the caller holds a list of layers
InitLayers ==
    /\ \E n \in 1 .. MaxSource : source \in [1 .. n -> LayerPool]
    /\ data3 = Idle /\ stackedFrom = Idle /\ viewed = Idle
    /\ G = Idle /\ cur = Idle /\ chain = Idle /\ more = FALSE
    /\ heap = Idle /\ grids = Idle /\ mask = Idle /\ punched = Idle
    /\ call = NoCall /\ result = Idle

\* Str3D(data): self.source is the caller's list itself
Construct ==
    /\ call.op = "none"
    /\ call' = [op |-> "Str3D"]
    /\ LET data == np_stack(LayerArrays(source))
       IN  IF IsError(data)
           THEN result' = data /\ UNCHANGED <<data3, stackedFrom>>
           ELSE data3' = data /\ stackedFrom' = source /\ result' = Idle
    /\ UNCHANGED <<source, viewed, chainVars, heapVars, maskVars>>

\* source.append(layer)
AppendLayer ==
    /\ data3 # Idle
    /\ Len(source) < MaxSource
    /\ \E layer \in LayerPool : source' = Append(source, layer)
    /\ call' = [op |-> "append"] /\ result' = Idle
    /\ UNCHANGED <<data3, stackedFrom, viewed, chainVars, heapVars, maskVars>>

\* del source[k]
RemoveLayer ==
    /\ data3 # Idle
    /\ \E k \in 1 .. Len(source) :
         source' = SubSeq(source, 1, k - 1) \o SubSeq(source, k + 1, Len(source))
    /\ call' = [op |-> "remove"] /\ result' = Idle
    /\ UNCHANGED <<data3, stackedFrom, viewed, chainVars, heapVars, maskVars>>

\* source[k] = layer
ReplaceLayer ==
    /\ data3 # Idle
    /\ \E k \in 1 .. Len(source), layer \in LayerPool :
         /\ layer # source[k]
         /\ source' = [source EXCEPT ![k] = layer]
    /\ call' = [op |-> "replace"] /\ result' = Idle
    /\ UNCHANGED <<data3, stackedFrom, viewed, chainVars, heapVars, maskVars>>

\* Str3D.update()
Update ==
    /\ data3 # Idle
    /\ call' = [op |-> "update"]
    /\ LET data == np_stack(LayerArrays(source))
       IN  IF IsError(data)
           THEN result' = data /\ UNCHANGED <<data3, stackedFrom>>
           ELSE data3' = data /\ stackedFrom' = source /\ result' = Idle
    /\ UNCHANGED <<source, viewed, chainVars, heapVars, maskVars>>

\* a read of view that stacks the source again when it can
View_restacking ==
    /\ data3 # Idle
    /\ call' = [op |-> "view"]
    /\ LET data == IF IsError(np_stack(LayerArrays(source))) THEN data3
                   ELSE np_stack(LayerArrays(source))
       IN  viewed' = <<view(data)>> /\ result' = view(data)
    /\ UNCHANGED <<source, data3, stackedFrom, chainVars, heapVars, maskVars>>

\* a read of the property Str3D.view
View ==
    /\ data3 # Idle
    /\ call' = [op |-> "view"]
    /\ viewed' = <<view(data3)>>
    /\ result' = view(data3)
    /\ UNCHANGED <<source, data3, stackedFrom, chainVars, heapVars, maskVars>>

NextLayers ==
    Construct \/ AppendLayer \/ RemoveLayer \/ ReplaceLayer \/ Update \/ View

SpecLayers == InitLayers /\ [][NextLayers]_vars

----------------------------------------------------------------------------
(* An attribute chain G.<letters> is evaluated one letter at a time *)

Fills == {Cell(" ", 0), Cell(".", 1)}

\* the arrays of visible characters up to MaxHeight x MaxWidth and MaxArea cells
CharArrays ==
    UNION {ArraysOf(s[1], s[2], {Cell(c, 1) : c \in Chars}) : s \in Shapes}

InitChain ==
    /\ \E a \in CharArrays, ha \in HAligns, va \in VAligns, f \in Fills :
         G = Str2D(FromArray(a), 0, 0, ha, va, FillTuple(<<f.char>>, f.alpha))
    /\ cur = G
    /\ chain = <<>>
    /\ more = FALSE
    /\ heap = Idle /\ grids = Idle /\ mask = Idle /\ punched = Idle
    /\ source = Idle /\ data3 = Idle /\ stackedFrom = Idle /\ viewed = Idle
    /\ call = NoCall /\ result = Idle

\* one letter p of the chain: `chain` records the letters while the chain
\* repeats one letter and is at most MaxChain long, `more` says it is any
\* other chain
Step(p) ==
    /\ cur' = Attr(cur, p)
    /\ IF ~more /\ Len(chain) < MaxChain /\ (chain = <<>> \/ chain[1] = p)
       THEN chain' = Append(chain, p) /\ more' = FALSE
       ELSE chain' = <<>> /\ more' = TRUE
    /\ UNCHANGED <<G, stackVars, callVars, heapVars, maskVars>>

StepT == Step("t")
StepI == Step("i")
StepH == Step("h")
StepV == Step("v")
StepR == Step("r")

NextChain == StepT \/ StepI \/ StepH \/ StepV \/ StepR

SpecChain == InitChain /\ [][NextChain]_vars

----------------------------------------------------------------------------
(* Construction from text: one call Str2D(text, min_width, min_height, ...) *)

TextChars == Chars \cup {"\n"}

Texts == UNION {[1 .. n -> TextChars] : n \in 0 .. MaxText}

FillArgs == {FillNone, FillStr(<<"x">>), FillTuple(<<".">>, 1)}

\* the caller holds a text
InitBuild ==
    /\ \E s \in Texts : call = [op |-> "none", data |-> s]
    /\ result = Idle
    /\ source = Idle /\ data3 = Idle /\ stackedFrom = Idle /\ viewed = Idle
    /\ G = Idle /\ cur = Idle /\ chain = Idle /\ more = FALSE
    /\ heap = Idle /\ grids = Idle /\ mask = Idle /\ punched = Idle

\* Str2D(data, min_width=mw, min_height=mh, halign=ha, valign=va, fill=f)
Build ==
    /\ call.op = "none"
    /\ \E mw \in 0 .. MaxMin, mh \in 0 .. MaxMin,
          ha \in HAligns, va \in VAligns, f \in FillArgs :
         /\ call' = [op |-> "Str2D", data |-> call.data,
                     min_width |-> mw, min_height |-> mh,
                     halign |-> ha, valign |-> va, fill |-> f]
         /\ result' = Str2D(FromStr(call.data), mw, mh, ha, va, f)
    /\ UNCHANGED <<stackVars, chainVars, heapVars, maskVars>>

NextBuild == Build

SpecBuild == InitBuild /\ [][NextBuild]_vars

----------------------------------------------------------------------------
(* Str2D.__init__ step by step: validation, parse, padding *)

Datas == UNION {[1 .. n -> TextChars] : n \in 0 .. MaxData}

HAlignArgs == HAligns \cup {"LEFT", "middle", "centre"}
VAlignArgs == VAligns \cup {"Bottom", "center", "upper"}
BadFills ==
    {FillStr(<<>>), FillStr(<<"x", "y">>), FillTuple(<<"x", "y">>, 0),
     FillTuple(<<"x">>, 2), FillTuple(<<".">>, -1)}

\* the caller holds a text
InitConstruct ==
    /\ \E s \in Datas : call = [op |-> "none", data |-> s]
    /\ result = Idle
    /\ source = Idle /\ data3 = Idle /\ stackedFrom = Idle /\ viewed = Idle
    /\ G = Idle /\ cur = Idle /\ chain = Idle /\ more = FALSE
    /\ heap = Idle /\ grids = Idle /\ mask = Idle /\ punched = Idle

\* the call Str2D(data, min_width=mw, min_height=mh, halign=ha, valign=va,
\* fill=f) is entered: `kwargs` and `parsed` are its locals, not yet bound
Enter ==
    /\ call.op = "none"
    /\ \E mw \in {0, MaxMin}, mh \in {0, MaxMin},
          ha \in HAlignArgs, va \in VAlignArgs, f \in FillArgs \cup BadFills :
         call' = [op |-> "Str2D", pc |-> "validate", data |-> call.data,
                  min_width |-> mw, min_height |-> mh,
                  halign |-> ha, valign |-> va, fill |-> f,
                  kwargs |-> Idle, parsed |-> Idle]
    /\ UNCHANGED <<result, stackVars, chainVars, heapVars, maskVars>>

\* fill = self.validate_fill(fill); halign = self.validate_halign(halign);
\* valign = self.validate_valign(valign)
Validate ==
    /\ call.op = "Str2D" /\ call.pc = "validate"
    /\ LET fill == validate_fill(call.fill)
           halign == validate_halign(call.halign)
           valign == validate_valign(call.valign)
       IN  IF IsError(fill) \/ halign = "ValueError" \/ valign = "ValueError"
           THEN /\ call' = [call EXCEPT !.pc = "raised"]
                /\ result' = ValueError
           ELSE /\ call' = [call EXCEPT !.pc = "parse",
                                        !.kwargs = [fill |-> fill, halign |-> halign,
                                                    valign |-> valign]]
                /\ UNCHANGED result
    /\ UNCHANGED <<stackVars, chainVars, heapVars, maskVars>>

\* data = self.parse(data, **my_kwargs, **kwargs)
Parse ==
    /\ call.op = "Str2D" /\ call.pc = "parse"
    /\ call' = [call EXCEPT !.pc = "pad",
                            !.parsed = <<parse(FromStr(call.data), call.min_width,
                                               call.min_height, call.kwargs.halign,
                                               call.kwargs.valign, call.kwargs.fill)>>]
    /\ UNCHANGED <<result, stackVars, chainVars, heapVars, maskVars>>

\* the padding to the minimal extents and the assignment of self.data,
\* self.halign, self.valign and self.fill
PadToMin ==
    /\ call.op = "Str2D" /\ call.pc = "pad"
    /\ call' = [call EXCEPT !.pc = "done"]
    /\ result' = pad_to_min(call.parsed[1], call.min_width, call.min_height,
                            call.kwargs.halign, call.kwargs.valign, call.kwargs.fill)
    /\ UNCHANGED <<stackVars, chainVars, heapVars, maskVars>>

NextConstruct == Enter \/ Validate \/ Parse \/ PadToMin

SpecConstruct == InitConstruct /\ [][NextConstruct]_vars

----------------------------------------------------------------------------
(* Rendering of a grid built from text: str(Str2D(text, fill=f)) *)

Render ==
    /\ call.op = "none"
    /\ \E f \in FillArgs :
         /\ call' = [op |-> "str", data |-> call.data, fill |-> f]
         /\ result' = __str__(Str2D(FromStr(call.data), 0, 0, "left", "top", f))
    /\ UNCHANGED <<stackVars, chainVars, heapVars, maskVars>>

NextRender == Render

SpecRender == InitBuild /\ [][NextRender]_vars

----------------------------------------------------------------------------
(* One call of expand, +, /, * or == on grids *)


OperandShapes ==
    {s \in (0 .. MaxHeight) \X (0 .. MaxWidth) : s[1] * s[2] <= MaxCells}

OperandArrays ==
    UNION {ArraysOf(s[1], s[2], {Cell("a", 1), Cell("b", 0)}) : s \in OperandShapes}

\* the grids Str2D(array, halign=.., valign=.., fill=..) builds
Operands ==
    {Str2D(FromArray(a), 0, 0, ha, va, FillTuple(<<f.char>>, f.alpha)) :
        a \in OperandArrays, ha \in HAligns, va \in VAligns, f \in Fills}

\* the caller holds a grid A
InitCall ==
    /\ \E A \in Operands : call = [op |-> "none", A |-> A]
    /\ result = Idle
    /\ source = Idle /\ data3 = Idle /\ stackedFrom = Idle /\ viewed = Idle
    /\ G = Idle /\ cur = Idle /\ chain = Idle /\ more = FALSE
    /\ heap = Idle /\ grids = Idle /\ mask = Idle /\ punched = Idle

\* A.expand(x, y)
Expand ==
    /\ call.op = "none"
    /\ \E x \in 0 .. MaxPad, y \in 0 .. MaxPad :
         /\ call' = [op |-> "expand", A |-> call.A, x |-> x, y |-> y]
         /\ result' = expand(call.A, x, y, "constant")
    /\ UNCHANGED <<stackVars, chainVars, heapVars, maskVars>>

\* A + B
Add ==
    /\ call.op = "none"
    /\ \E B \in Operands :
         /\ call' = [op |-> "add", A |-> call.A, B |-> B]
         /\ result' = __add__(call.A, B, FALSE)
    /\ UNCHANGED <<stackVars, chainVars, heapVars, maskVars>>

\* A / B
Div ==
    /\ call.op = "none"
    /\ \E B \in Operands :
         /\ call' = [op |-> "div", A |-> call.A, B |-> B]
         /\ result' = __truediv__(call.A, B, FALSE)
    /\ UNCHANGED <<stackVars, chainVars, heapVars, maskVars>>

\* A * n
Mul ==
    /\ call.op = "none"
    /\ \E n \in 0 .. MaxTimes :
         /\ call' = [op |-> "mul", A |-> call.A, n |-> n]
         /\ result' = __mul__(call.A, n)
    /\ UNCHANGED <<stackVars, chainVars, heapVars, maskVars>>

\* n * A
Rmul ==
    /\ call.op = "none"
    /\ \E n \in 0 .. MaxTimes :
         /\ call' = [op |-> "rmul", A |-> call.A, n |-> n]
         /\ result' = __rmul__(call.A, n)
    /\ UNCHANGED <<stackVars, chainVars, heapVars, maskVars>>

\* A == B
Eq ==
    /\ call.op = "none"
    /\ \E B \in Operands :
         /\ call' = [op |-> "eq", A |-> call.A, B |-> B]
         /\ result' \in __eq__(call.A, B)
    /\ UNCHANGED <<stackVars, chainVars, heapVars, maskVars>>

NextCall == Expand \/ Add \/ Div \/ Mul \/ Rmul

SpecCall == InitCall /\ [][NextCall]_vars

NextCompare == Eq

SpecCompare == InitCall /\ [][NextCompare]_vars

----------------------------------------------------------------------------
(* One call of Str2D.join_h or Str2D.join_v on a list of grids *)

HAlignSeq == <<"left", "center", "right">>
VAlignSeq == <<"top", "middle", "bottom">>

\* operand k of a join: a grid of shape s filled with the k-th character,
\* aligned left/top, center/middle or right/bottom
JoinOperand(k, s, al) ==
    Str2D(FromArray([h |-> s[1], w |-> s[2],
                     at |-> [p \in Idx(s[1], s[2]) |-> Cell(LayerChars[k], 1)]]),
          0, 0, HAlignSeq[al], VAlignSeq[al], FillNone)

JoinShapes == {s \in OperandShapes : s[1] * s[2] > 0}

\* the caller holds the grids G1 .. Gn
InitJoin ==
    /\ \E n \in 1 .. MaxJoin :
         \E ss \in [1 .. n -> JoinShapes], als \in [1 .. n -> 1 .. 3] :
            call = [op |-> "none",
                    args |-> [k \in 1 .. n |-> JoinOperand(k, ss[k], als[k])]]
    /\ result = Idle
    /\ source = Idle /\ data3 = Idle /\ stackedFrom = Idle /\ viewed = Idle
    /\ G = Idle /\ cur = Idle /\ chain = Idle /\ more = FALSE
    /\ heap = Idle /\ grids = Idle /\ mask = Idle /\ punched = Idle

Seps == {<<>>, <<"|">>}

\* Str2D.join_h(G1, .., Gn, sep=sep)
JoinH ==
    /\ call.op = "none"
    /\ \E sep \in Seps :
         /\ call' = [op |-> "join_h", args |-> call.args, sep |-> sep]
         /\ result' = join_h(call.args, sep)
    /\ UNCHANGED <<stackVars, chainVars, heapVars, maskVars>>

\* Str2D.join_v(G1, .., Gn, sep=sep)
JoinV ==
    /\ call.op = "none"
    /\ \E sep \in Seps :
         /\ call' = [op |-> "join_v", args |-> call.args, sep |-> sep]
         /\ result' = join_v(call.args, sep)
    /\ UNCHANGED <<stackVars, chainVars, heapVars, maskVars>>

NextJoin == JoinH \/ JoinV

SpecJoin == InitJoin /\ [][NextJoin]_vars

----------------------------------------------------------------------------
(* One call of + or / with a str as the other operand *)

Strs == UNION {[1 .. n -> {"c", "\n"}] : n \in 0 .. MaxStr}

\* A + text
AddStr ==
    /\ call.op = "none"
    /\ \E text \in Strs :
         /\ call' = [op |-> "add", A |-> call.A, text |-> text]
         /\ result' = __add__(call.A, FromStr(text), FALSE)
    /\ UNCHANGED <<stackVars, chainVars, heapVars, maskVars>>

\* A / text
DivStr ==
    /\ call.op = "none"
    /\ \E text \in Strs :
         /\ call' = [op |-> "div", A |-> call.A, text |-> text]
         /\ result' = __truediv__(call.A, FromStr(text), FALSE)
    /\ UNCHANGED <<stackVars, chainVars, heapVars, maskVars>>

NextStr == AddStr \/ DivStr

SpecStr == InitCall /\ [][NextStr]_vars

----------------------------------------------------------------------------
(* One call of G[key] *)

CellChars == <<"0", "1", "2", "3", "4", "5", "6", "7", "8">>

\* the grid of shape s whose cell (row, col) holds the character numbered
\* row * width + col
NumberedGrid(s, al, f) ==
    Str2D(FromArray([h |-> s[1], w |-> s[2],
                     at |-> [p \in Idx(s[1], s[2]) |->
                               Cell(CellChars[p[1] * s[2] + p[2] + 1], 1)]]),
          0, 0, HAlignSeq[al], VAlignSeq[al], FillTuple(<<f.char>>, f.alpha))

\* the caller holds a grid A
InitIndex ==
    /\ \E s \in Shapes, al \in 1 .. 3, f \in Fills :
         call = [op |-> "none", A |-> NumberedGrid(s, al, f)]
    /\ result = Idle
    /\ source = Idle /\ data3 = Idle /\ stackedFrom = Idle /\ viewed = Idle
    /\ G = Idle /\ cur = Idle /\ chain = Idle /\ more = FALSE
    /\ heap = Idle /\ grids = Idle /\ mask = Idle /\ punched = Idle

Ints == (-MaxIdx) .. MaxIdx
SliceBounds == {None} \cup {<<n>> : n \in Ints}
AxisKeys ==
    {IntKey(n) : n \in Ints} \cup {SliceKey(a, b) : a \in SliceBounds, b \in SliceBounds}

\* A[k]
GetItem ==
    /\ call.op = "none"
    /\ \E k \in AxisKeys :
         /\ call' = [op |-> "getitem", A |-> call.A, key |-> k]
         /\ result' = __getitem__(call.A, k)
    /\ UNCHANGED <<stackVars, chainVars, heapVars, maskVars>>

\* A[k1, k2]
GetItem2 ==
    /\ call.op = "none"
    /\ \E k1 \in AxisKeys, k2 \in AxisKeys :
         /\ call' = [op |-> "getitem", A |-> call.A, key |-> TupleKey(k1, k2)]
         /\ result' = __getitem__(call.A, TupleKey(k1, k2))
    /\ UNCHANGED <<stackVars, chainVars, heapVars, maskVars>>

NextIndex == GetItem \/ GetItem2

SpecIndex == InitIndex /\ [][NextIndex]_vars

----------------------------------------------------------------------------
(* One call of G.split or G.insert *)

\* the sorted lists of at most MaxCuts cut points
Cuts ==
    {c \in UNION {[1 .. n -> 0 .. MaxIdx] : n \in 0 .. MaxCuts} :
        \A m \in 1 .. (Len(c) - 1) : c[m] <= c[m + 1]}

\* A.split(cuts, axis)
Split ==
    /\ call.op = "none"
    /\ \E cuts \in Cuts, axis \in {0, 1} :
         /\ call' = [op |-> "split", A |-> call.A, cuts |-> cuts, axis |-> axis]
         /\ result' = split(call.A, cuts, axis)
    /\ UNCHANGED <<stackVars, chainVars, heapVars, maskVars>>

\* A.insert(cuts, axis, sep)
Insert ==
    /\ call.op = "none"
    /\ \E cuts \in Cuts, axis \in {0, 1}, sep \in Seps :
         /\ call' = [op |-> "insert", A |-> call.A, cuts |-> cuts, axis |-> axis,
                     sep |-> sep]
         /\ result' = insert(call.A, cuts, axis, sep)
    /\ UNCHANGED <<stackVars, chainVars, heapVars, maskVars>>

NextSplit == Split \/ Insert

SpecSplit == InitIndex /\ [][NextSplit]_vars

----------------------------------------------------------------------------
(* One call of G.roll *)

\* shapes of up to MaxExtent rows or columns and MaxArea cells
RollShapes ==
    {s \in (0 .. MaxExtent) \X (0 .. MaxExtent) : s[1] * s[2] <= MaxArea}

\* the caller holds a grid A
InitRoll ==
    /\ \E s \in RollShapes, al \in 1 .. 3, f \in Fills :
         call = [op |-> "none", A |-> NumberedGrid(s, al, f)]
    /\ result = Idle
    /\ source = Idle /\ data3 = Idle /\ stackedFrom = Idle /\ viewed = Idle
    /\ G = Idle /\ cur = Idle /\ chain = Idle /\ more = FALSE
    /\ heap = Idle /\ grids = Idle /\ mask = Idle /\ punched = Idle

\* A.roll(n, axis)
Roll ==
    /\ call.op = "none"
    /\ \E n \in (-MaxRoll) .. MaxRoll, axis \in {0, 1} :
         /\ call' = [op |-> "roll", A |-> call.A, x |-> n, axis |-> axis]
         /\ result' = roll(call.A, n, axis)
    /\ UNCHANGED <<stackVars, chainVars, heapVars, maskVars>>

NextRoll == Roll

SpecRoll == InitRoll /\ [][NextRoll]_vars

----------------------------------------------------------------------------
(* Claims about the stack *)

\* the layers (0-based) of `source` that are visible at position p
VisibleAt(p) == {k \in 0 .. (Len(source) - 1) : source[k + 1].data.at[p].alpha = 1}

Lowest(S) == CHOOSE k \in S : \A m \in S : k <= m

Positions == Idx(data3.h, data3.w)

\* C1: the view of a stack of same-shaped layers has the layers' shape, and at
\* every position its character is that of the lowest-indexed layer visible
\* there, or that of layer 0 when no layer is visible there.
C1_FirstVisibleWins ==
    viewed # Idle =>
        /\ viewed[1].data.h = source[1].data.h
        /\ viewed[1].data.w = source[1].data.w
        /\ \A p \in Positions :
              viewed[1].data.at[p].char =
                  IF VisibleAt(p) = {} THEN source[1].data.at[p].char
                  ELSE source[Lowest(VisibleAt(p)) + 1].data.at[p].char

\* a view was read where, at one position, a later layer is visible under an
\* earlier visible one, and at another no layer is visible
C1_Witness ==
    /\ viewed # Idle
    /\ \E p \in Positions : Cardinality(VisibleAt(p)) >= 2 /\ 0 \notin VisibleAt(p)
    /\ \E p \in Positions : VisibleAt(p) = {}

\* C2 as stated: every cell of the view is visible.
C2_AllVisible ==
    viewed # Idle => \A p \in Positions : viewed[1].data.at[p].alpha = 1

\* C2 as amended: a cell of the view carries the alpha of the cell it was
\* selected from, so it is visible exactly where some layer is visible, and
\* not visible where layer 0 was selected because no layer is.
C2_VisibleWhereSomeLayerIs ==
    viewed # Idle =>
        \A p \in Positions :
            viewed[1].data.at[p].alpha = (IF VisibleAt(p) = {} THEN 0 ELSE 1)

\* a view was read of a stack with a position no layer is visible at and a
\* position some layer is visible at
C2_Witness ==
    /\ viewed # Idle
    /\ Len(source) >= 2
    /\ \E p \in Positions : VisibleAt(p) = {}
    /\ \E p \in Positions : VisibleAt(p) # {}

----------------------------------------------------------------------------
(* Claims about the transformations *)

\* what the round-trip laws compare: character matrix, halign and valign
Oriented(g) == <<CharField(g.data), g.halign, g.valign>>

\* C4: G.h.h, G.v.v and G.t.t have the character matrix, halign and valign of G.
C4_InvolutionsRestore ==
    (~more /\ chain \in {<<"h", "h">>, <<"v", "v">>, <<"t", "t">>})
        => Oriented(cur) = Oriented(G)

\* t was applied twice to a grid that is not square and whose alignment t changes
C4_Witness ==
    /\ chain = <<"t", "t">>
    /\ G.data.h # G.data.w
    /\ G.halign = "right" /\ G.valign = "top"

\* C5: four applications of r give the character matrix, halign and valign of G.
C5_FourQuarterTurns ==
    (~more /\ chain = <<"r", "r", "r", "r">>) => Oriented(cur) = Oriented(G)

\* r was applied four times to a grid that one application of r changes
C5_Witness ==
    /\ chain = <<"r", "r", "r", "r">>
    /\ G.data.h = 1 /\ G.data.w = 2
    /\ Oriented(Attr(G, "r")) # Oriented(G)
    /\ Oriented(Attr(Attr(G, "r"), "r")) # Oriented(G)

\* the eight orientations of g: the four rotations and their transposes
Orientations(g) ==
    {Oriented(__getattr__(g, name)) :
        name \in {<<"i">>, <<"r">>, <<"r", "r">>, <<"r", "r", "r">>,
                  <<"t">>, <<"h">>, <<"v">>, <<"t", "r", "r">>}}

\* C6: whatever chain of i, t, h, v and r has been applied, the grid is one of
\* the at most eight orientations of G, and a chain leads from it back to G.
C6_ClosedGroupOfEight ==
    /\ Cardinality(Orientations(G)) <= 8
    /\ Oriented(cur) \in Orientations(G)
    /\ Oriented(G) \in Orientations(cur)

\* a chain that mixes letters or is longer than MaxChain was applied to a
\* grid that has eight different orientations, and left it changed
C6_Witness ==
    /\ more
    /\ Cardinality(Orientations(G)) = 8
    /\ Oriented(cur) # Oriented(G)

----------------------------------------------------------------------------
(* Claims about construction from text *)

\* where a block of `len` cells starts in `total` cells, by alignment
Offset(align, total, len) ==
    CASE align \in {"left", "top"} -> 0
      [] align \in {"center", "middle"} -> (total - len) \div 2
      [] align \in {"right", "bottom"} -> total - len

Longest(lines) ==
    IF lines = <<>> THEN 0
    ELSE CHOOSE n \in {Len(lines[k]) : k \in 1 .. Len(lines)} :
            \A k \in 1 .. Len(lines) : Len(lines[k]) <= n

\* C7: the grid built from a text has width max(longest line, min_width) and
\* height max(line count, min_height); the block of lines starts at the row
\* valign gives, each line at the column halign gives for that line, and
\* every other cell holds the fill character.
C7_TextLayout ==
    call.op = "Str2D" =>
        LET lines == splitlines(call.data)
            n == Len(lines)
            W == Max(Longest(lines), call.min_width)
            H == Max(n, call.min_height)
            top == Offset(call.valign, H, n)
            left(k) == Offset(call.halign, W, Len(lines[k]))
            fill_char == IF call.fill.kind = "None" THEN " " ELSE call.fill.char[1]
            expected(p) ==
                LET k == p[1] - top + 1
                IN  IF k \in 1 .. n /\ p[2] - left(k) \in 0 .. (Len(lines[k]) - 1)
                    THEN lines[k][p[2] - left(k) + 1]
                    ELSE fill_char
        IN  /\ result.data.h = H
            /\ result.data.w = W
            /\ \A p \in Idx(H, W) : result.data.at[p].char = expected(p)

\* a text of two lines of different lengths was centred in a grid that is an
\* odd number of cells wider than one line and taller than the text
C7_Witness ==
    /\ call.op = "Str2D"
    /\ call.halign = "center" /\ call.valign = "middle"
    /\ call.data = <<"a", "b", "\n", "b">>
    /\ call.min_width = 3 /\ call.min_height = 3
    /\ result.data.h = 3 /\ result.data.w = 3

----------------------------------------------------------------------------
(* Claims about expand, +, /, * and == *)

\* C8: A.expand(x, y) has shape (A.height + y, A.width + x) and holds the
\* cells of A at the offset the alignments give: 0, x div 2 or x columns and
\* 0, y div 2 or y rows; what is added after is the rest of the deficit, so
\* an odd cell of a centred grid goes after.
C8_ExpandOffsets ==
    call.op = "expand" =>
        LET A == call.A
            left == Offset(A.halign, A.data.w + call.x, A.data.w)
            top == Offset(A.valign, A.data.h + call.y, A.data.h)
            right == result.data.w - A.data.w - left
            bottom == result.data.h - A.data.h - top
        IN  /\ result.data.h = A.data.h + call.y
            /\ result.data.w = A.data.w + call.x
            /\ \A p \in Idx(A.data.h, A.data.w) :
                  result.data.at[<<p[1] + top, p[2] + left>>] = A.data.at[p]
            /\ left + right = call.x /\ top + bottom = call.y
            /\ A.halign = "center" => right - left \in {0, 1}
            /\ A.valign = "middle" => bottom - top \in {0, 1}

\* a centred, non-empty grid was expanded by an odd number of columns and rows
C8_Witness ==
    /\ call.op = "expand"
    /\ call.A.halign = "center" /\ call.A.valign = "middle"
    /\ call.A.data.h * call.A.data.w > 0
    /\ call.x = 1 /\ call.y = 1
    /\ result.data.at[<<0, 0>>] = call.A.data.at[<<0, 0>>]

\* the cell an operand g padded to the extent (H, W) by its own alignment and
\* fill shows at position p
PaddedCell(g, H, W, p) ==
    LET q == <<p[1] - Offset(g.valign, H, g.data.h),
               p[2] - Offset(g.halign, W, g.data.w)>>
    IN  IF q \in Idx(g.data.h, g.data.w) THEN g.data.at[q] ELSE g.fill

\* C9: A + B has height max(A.height, B.height) and width A.width + B.width,
\* A / B has width max(A.width, B.width) and height A.height + B.height, and
\* each operand appears padded to the common extent by its own valign (+) or
\* halign (/) with its own fill.
C9_JoinPadsEachByItsOwn ==
    LET A == call.A
        B == call.B
    IN  /\ call.op = "add" =>
              LET H == Max(A.data.h, B.data.h)
              IN  /\ result.data.h = H
                  /\ result.data.w = A.data.w + B.data.w
                  /\ \A p \in Idx(H, A.data.w) :
                        result.data.at[p] = PaddedCell(A, H, A.data.w, p)
                  /\ \A p \in Idx(H, B.data.w) :
                        result.data.at[<<p[1], p[2] + A.data.w>>]
                            = PaddedCell(B, H, B.data.w, p)
        /\ call.op = "div" =>
              LET W == Max(A.data.w, B.data.w)
              IN  /\ result.data.w = W
                  /\ result.data.h = A.data.h + B.data.h
                  /\ \A p \in Idx(A.data.h, W) :
                        result.data.at[p] = PaddedCell(A, A.data.h, W, p)
                  /\ \A p \in Idx(B.data.h, W) :
                        result.data.at[<<p[1] + A.data.h, p[2]>>]
                            = PaddedCell(B, B.data.h, W, p)

\* A + B was evaluated with B lower than A, and the two differ in valign and fill
C9_Witness ==
    /\ call.op = "add"
    /\ call.A.data.h = 2 /\ call.B.data.h = 1 /\ call.B.data.w = 1
    /\ call.A.valign = "top" /\ call.B.valign = "bottom"
    /\ call.A.fill # call.B.fill
    /\ result.data.at[<<0, call.A.data.w>>] = call.B.fill

\* C10: for n >= 1, A * n is n copies of A side by side and n * A is n copies
\* of A one below the other; both have n times the cells of A.
C10_RepeatSides ==
    LET A == call.A
        n == call.n
    IN  /\ (call.op = "mul" /\ n >= 1) =>
              /\ result.data.h = A.data.h
              /\ result.data.w = n * A.data.w
              /\ \A p \in Idx(A.data.h, n * A.data.w) :
                    result.data.at[p] = A.data.at[<<p[1], p[2] % A.data.w>>]
              /\ result.data.h * result.data.w = n * (A.data.h * A.data.w)
        /\ (call.op = "rmul" /\ n >= 1) =>
              /\ result.data.h = n * A.data.h
              /\ result.data.w = A.data.w
              /\ \A p \in Idx(n * A.data.h, A.data.w) :
                    result.data.at[p] = A.data.at[<<p[1] % A.data.h, p[2]>>]
              /\ result.data.h * result.data.w = n * (A.data.h * A.data.w)

\* a grid of one row and two different cells was repeated three times by A * n
C10_Witness ==
    /\ call.op = "mul"
    /\ call.n = 3
    /\ call.A.data.h = 1 /\ call.A.data.w = 2
    /\ call.A.data.at[<<0, 0>>] # call.A.data.at[<<0, 1>>]
    /\ result.data.w = 6

\* what == reports: equal when it returned an array with every element True
ReportsEqual(res) ==
    /\ ~IsError(res)
    /\ res.kind = "ndarray"
    /\ \A p \in Idx(res.h, res.w) : res.at[p]

HasCells(g) == g.data.h * g.data.w > 0

\* C3: A == B reports the grids equal exactly when their character matrices
\* are equal (stated for grids that have at least one cell each).
C3_EqualIffSameChars ==
    (call.op = "eq" /\ HasCells(call.A) /\ HasCells(call.B)) =>
        (ReportsEqual(result) <=> CharField(call.A.data) = CharField(call.B.data))

----------------------------------------------------------------------------
(* Claims about joins with a separator and with a str operand *)

RECURSIVE SumWidth(_, _)
SumWidth(args, k) == IF k = 0 THEN 0 ELSE width(args[k]) + SumWidth(args, k - 1)

RECURSIVE SumHeight(_, _)
SumHeight(args, k) == IF k = 0 THEN 0 ELSE height(args[k]) + SumHeight(args, k - 1)

\* C11: join_h with a one-character separator returns a grid in which, after
\* each operand but the last, a column holds the separator in every row, and
\* join_v one in which a row holds it in every column
C11_SeparatorSpansResult ==
    (call.op \in {"join_h", "join_v"} /\ Len(call.sep) = 1) =>
        /\ ~IsError(result)
        /\ \A k \in 1 .. (Len(call.args) - 1) :
             IF call.op = "join_h"
             THEN LET col == SumWidth(call.args, k) + (k - 1)
                  IN  /\ col < width(result)
                      /\ \A row \in 0 .. (height(result) - 1) :
                           result.data.at[<<row, col>>].char = call.sep[1]
             ELSE LET row == SumHeight(call.args, k) + (k - 1)
                  IN  /\ row < height(result)
                      /\ \A col \in 0 .. (width(result) - 1) :
                           result.data.at[<<row, col>>].char = call.sep[1]

\* the grid a str operand of + or / is lifted to
LiftedText(text) == Str2D(FromStr(text), 0, 0, "left", "top", FillNone)

\* C12: A + text and A / text return a grid; the part of it that comes from a
\* non-empty text is Str2D(text) with its last row (+) or last column (/)
\* repeated up to the common extent, and an empty text leaves the cells of A
\* (stated for a grid A that has cells)
C12_StrOperandRepeatsItsEdge ==
    (call.op \in {"add", "div"} /\ "text" \in DOMAIN call /\ HasCells(call.A)) =>
        LET A == call.A
            L == LiftedText(call.text)
            H == Max(height(A), height(L))
            W == Max(width(A), width(L))
        IN  /\ ~IsError(result)
            /\ IF call.text = <<>> THEN result.data = A.data
               ELSE IF call.op = "add"
               THEN /\ height(result) = H
                    /\ width(result) = width(A) + width(L)
                    /\ \A p \in Idx(H, width(L)) :
                         result.data.at[<<p[1], width(A) + p[2]>>]
                            = L.data.at[<<Clamp(p[1], height(L)), p[2]>>]
               ELSE /\ width(result) = W
                    /\ height(result) = height(A) + height(L)
                    /\ \A p \in Idx(height(L), W) :
                         result.data.at[<<height(A) + p[1], p[2]>>]
                            = L.data.at[<<p[1], Clamp(p[2], width(L))>>]

----------------------------------------------------------------------------
(* Claims about indexing *)

RowKey(key) == IF key.kind = "tuple" THEN key.keys[1] ELSE key
ColKey(key) == IF key.kind = "tuple" THEN key.keys[2] ELSE SliceKey(None, None)

\* the range lo .. hi-1 of indices a key stands for on an axis of extent n: an
\* int i (counted from the end when negative) is the range [i, i+1), a slice
\* is cut to the axis
KeyRange(k, n) ==
    IF k.kind = "int"
    THEN LET at == IF k.i < 0 THEN k.i + n ELSE k.i IN <<at, at + 1>>
    ELSE <<SliceBound(k.start, n, 0), SliceBound(k.stop, n, n)>>

\* the grid `res` is the block of A in the ranges the key stands for
IsBlock(res, A, key) ==
    LET rr == KeyRange(RowKey(key), height(A))
        cc == KeyRange(ColKey(key), width(A))
        hh == Max(rr[2] - rr[1], 0)
        ww == Max(cc[2] - cc[1], 0)
    IN  /\ ~IsError(res)
        /\ height(res) = hh /\ width(res) = ww
        /\ \A p \in Idx(hh, ww) :
             res.data.at[p] = A.data.at[<<rr[1] + p[1], cc[1] + p[2]>>]

\* an int key that is no index of an axis of extent n
IntOutside(k, n) == k.kind = "int" /\ k.i \notin (-n) .. (n - 1)

InBounds(key, A) ==
    /\ ~IntOutside(RowKey(key), height(A))
    /\ ~IntOutside(ColKey(key), width(A))

\* C13: G[key] with integers in range returns a Str2D, the block of G in which
\* an integer i stands for the range [i, i+1)
C13_IndexReturnsBlock ==
    (call.op = "getitem" /\ InBounds(call.key, call.A)) =>
        IsBlock(result, call.A, call.key)

\* a slice with a bound beyond the axis of extent n
SliceOutside(k, n) ==
    k.kind = "slice" /\ \E x \in {k.start, k.stop} :
                           x # None /\ x[1] \notin (-n) .. n

Outside(k, n) == IntOutside(k, n) \/ SliceOutside(k, n)

\* the number of indices of the axis of extent n in the range a key stands for
Truncated(k, n) ==
    IF IntOutside(k, n) THEN 0
    ELSE LET rr == KeyRange(k, n) IN Max(rr[2] - rr[1], 0)

\* C14 as stated: G[key] with a row or column key that lies outside the grid
\* returns a Str2D whose extents are those of the keys cut to the grid
\* (stated for a grid that has cells)
C14_OutsideNeverRaises ==
    (/\ call.op = "getitem"
     /\ HasCells(call.A)
     /\ \/ Outside(RowKey(call.key), height(call.A))
        \/ Outside(ColKey(call.key), width(call.A))) =>
        /\ ~IsError(result)
        /\ height(result) = Truncated(RowKey(call.key), height(call.A))
        /\ width(result) = Truncated(ColKey(call.key), width(call.A))

\* C14 amended: G[key] with a slice that lies outside the grid returns the
\* block of G in the slice cut to the grid unless an integer of the key is out
\* of range, and G[key] with an integer out of range is an IndexError
C14_SlicesTruncatedIntsRefused ==
    call.op = "getitem" =>
        LET rowk == RowKey(call.key)
            colk == ColKey(call.key)
        IN  /\ (IntOutside(rowk, height(call.A)) \/ IntOutside(colk, width(call.A)))
                  => result = IndexError
            /\ (/\ InBounds(call.key, call.A)
                /\ \/ SliceOutside(rowk, height(call.A))
                   \/ SliceOutside(colk, width(call.A)))
                  => IsBlock(result, call.A, call.key)

\* a slice wholly below a grid of two rows gave a grid of no row
C14_Witness ==
    /\ call.op = "getitem"
    /\ height(call.A) = 2 /\ width(call.A) = 2
    /\ call.key = SliceKey(<<3>>, None)
    /\ ~IsError(result)
    /\ height(result) = 0 /\ width(result) = 2

----------------------------------------------------------------------------
(* Claims about splitting *)

\* the m-th range of the axis of extent n cut at `cuts`
CutRange(cuts, m, n) ==
    <<IF m = 1 THEN 0 ELSE cuts[m - 1],
      IF m = Len(cuts) + 1 THEN n ELSE cuts[m]>>

\* C15: G.split(cuts, axis) returns Len(cuts) + 1 grids, the m-th holding in
\* their order the rows (axis 0) or columns (axis 1) of G with index in the
\* m-th range, none for a range beyond the extent; joined in their order along
\* the axis, by join_v or join_h and by insert with sep "", they have the
\* characters of G
C15_SplitPiecesRejoin ==
    /\ call.op = "split" =>
        LET A == call.A
            n == IF call.axis = 0 THEN height(A) ELSE width(A)
            inrange(m) == {x \in 0 .. (n - 1) :
                              /\ CutRange(call.cuts, m, n)[1] <= x
                              /\ x < CutRange(call.cuts, m, n)[2]}
            joined == IF call.axis = 0 THEN join_v(result, <<>>)
                      ELSE join_h(result, <<>>)
        IN  /\ Len(result) = Len(call.cuts) + 1
            /\ \A m \in 1 .. Len(result) :
                 LET lo == CutRange(call.cuts, m, n)[1]
                     piece == result[m]
                 IN  /\ ~IsError(piece)
                     /\ IF call.axis = 0
                        THEN /\ height(piece) = Cardinality(inrange(m))
                             /\ width(piece) = width(A)
                             /\ \A p \in Idx(height(piece), width(piece)) :
                                  piece.data.at[p] = A.data.at[<<lo + p[1], p[2]>>]
                        ELSE /\ width(piece) = Cardinality(inrange(m))
                             /\ height(piece) = height(A)
                             /\ \A p \in Idx(height(piece), width(piece)) :
                                  piece.data.at[p] = A.data.at[<<p[1], lo + p[2]>>]
            /\ ~IsError(joined)
            /\ CharField(joined.data) = CharField(A.data)
    /\ (call.op = "insert" /\ call.sep = <<>>) =>
            /\ ~IsError(result)
            /\ CharField(result.data) = CharField(call.A.data)

\* a grid of two rows was split at 1 and at 3, beyond its extent
C15_Witness ==
    /\ call.op = "split"
    /\ call.axis = 0 /\ call.cuts = <<1, 3>>
    /\ height(call.A) = 2 /\ width(call.A) = 2
    /\ Len(result) = 3
    /\ height(result[2]) = 1 /\ height(result[3]) = 0

----------------------------------------------------------------------------
(* Claims about rolling *)

\* C16: G.roll(n, axis) is a grid of the shape, halign, valign and fill of G
\* in which the row (axis 0) or column (axis 1) p of G is at index
\* (p + n) mod extent; it equals G.roll(n mod extent, axis)
C16_RollIsCyclicShift ==
    call.op = "roll" =>
        LET A == call.A
            n == call.x
        IN  /\ ~IsError(result)
            /\ height(result) = height(A) /\ width(result) = width(A)
            /\ result.halign = A.halign /\ result.valign = A.valign
            /\ result.fill = A.fill
            /\ \A p \in Idx(height(A), width(A)) :
                 IF call.axis = 0
                 THEN result.data.at[<<(p[1] + n) % height(A), p[2]>>] = A.data.at[p]
                 ELSE result.data.at[<<p[1], (p[2] + n) % width(A)>>] = A.data.at[p]
            /\ call.axis = 0 /\ height(A) > 0
                  => result = roll(A, n % height(A), 0)
            /\ call.axis = 1 /\ width(A) > 0
                  => result = roll(A, n % width(A), 1)

\* a grid of three rows was rolled by -4 rows, which moved its row 0 to row 2
C16_Witness ==
    /\ call.op = "roll"
    /\ call.axis = 0 /\ call.x = -4
    /\ height(call.A) = 3 /\ width(call.A) = 1
    /\ ~IsError(result)
    /\ result.data.at[<<2, 0>>] = call.A.data.at[<<0, 0>>]
    /\ result.data # call.A.data

----------------------------------------------------------------------------
(* Claims about rendering *)

\* the lines of a text: its pieces between line breaks
RECURSIVE LinesOf(_)
LinesOf(s) ==
    IF \A k \in 1 .. Len(s) : s[k] # "\n" THEN <<s>>
    ELSE LET k == CHOOSE x \in 1 .. Len(s) :
                     s[x] = "\n" /\ \A y \in 1 .. (x - 1) : s[y] # "\n"
         IN  <<SubSeq(s, 1, k - 1)>> \o LinesOf(SubSeq(s, k + 1, Len(s)))

Rectangular(s) == \A k \in 1 .. Len(LinesOf(s)) : Len(LinesOf(s)[k]) = Len(LinesOf(s)[1])

----------------------------------------------------------------------------
(* Claims about validation *)

\* the spellings of the alignments the library takes
HAlignSpellings == {"left", "center", "right", "LEFT", "leFt", "Center", "RIGHT"}
VAlignSpellings == {"top", "middle", "bottom", "Top", "MIDDLE", "Bottom"}

\* a fill that is not one character, or whose visibility is neither 0 nor 1
BadFill(f) ==
    /\ f.kind # "None"
    /\ \/ Len(f.char) # 1
       \/ f.kind = "tuple" /\ f.alpha \notin {0, 1}

InvalidArguments(c) ==
    \/ c.halign \notin HAlignSpellings
    \/ c.valign \notin VAlignSpellings
    \/ BadFill(c.fill)

----------------------------------------------------------------------------
(* Claims about a stack whose layers change *)

\* the layers are some and have one shape
Stackable(layers) ==
    /\ layers # <<>>
    /\ \A k \in 1 .. Len(layers) :
         height(layers[k]) = height(layers[1]) /\ width(layers[k]) = width(layers[1])

\* the grid that resolves layers of one shape: at each position the cell of
\* the first layer visible there, of the first layer when none is
Resolution(layers) ==
    LET seen(p) == {k \in 1 .. Len(layers) : layers[k].data.at[p].alpha = 1}
        first(p) == IF seen(p) = {} THEN 1 ELSE Lowest(seen(p))
    IN  Str2DDefault([h |-> height(layers[1]), w |-> width(layers[1]),
                      at |-> [p \in Idx(height(layers[1]), width(layers[1])) |->
                                layers[first(p)].data.at[p]]])

\* C19: Str3D(layers) raises when the layers are not of one shape and leaves
\* no stack, it builds one when they are, and the layers a stack's data was
\* built from are always of one shape
C19_MismatchedLayersRefused ==
    /\ (call.op = "Str3D" /\ ~Stackable(source)) =>
            /\ result = ValueError
            /\ data3 = Idle /\ stackedFrom = Idle /\ viewed = Idle
    /\ (call.op = "Str3D" /\ Stackable(source)) =>
            /\ result = Idle
            /\ data3 # Idle /\ stackedFrom = source
    /\ stackedFrom # Idle => Stackable(stackedFrom)
    /\ viewed # Idle => stackedFrom # Idle

\* Str3D was called on a layer of one cell and a layer of two cells
C19_Witness ==
    /\ call.op = "Str3D"
    /\ Len(source) = 2
    /\ width(source[1]) = 1 /\ width(source[2]) = 2
    /\ result = ValueError
    /\ data3 = Idle

\* C20 as stated: a read of view returns the resolution of the layers that are
\* in the source at the read
C20_ViewOfCurrentLayers ==
    call.op = "view" =>
        /\ Stackable(source)
        /\ viewed = <<Resolution(source)>>

\* C20 amended: a read of view returns the resolution of the layers that were
\* in the source at the construction or at the last update() that did not
\* raise; after update() on layers of one shape these are the current layers
C20_ViewOfLayersAtLastUpdate ==
    /\ call.op = "view" => viewed = <<Resolution(stackedFrom)>>
    /\ (call.op = "update" /\ Stackable(source)) => stackedFrom = source

\* view was read after the source had changed and no update() had followed
C20_Witness ==
    /\ call.op = "view"
    /\ Stackable(source)
    /\ source # stackedFrom
    /\ viewed = <<Resolution(stackedFrom)>>
    /\ viewed # <<Resolution(source)>>

----------------------------------------------------------------------------
(* A grid built from text, then one call of expand, + or / on it *)

\* the grids the other operand of + or / is drawn from, each built from a
\* text with its own alignment and fill
OtherTexts == {<<"b">>, <<"b", "\n", "b", "b">>}
OtherFills == {FillNone, FillTuple(<<".">>, 1)}

\* the caller built A = Str2D(data, min_width=mw, min_height=mh, halign=ha,
\* valign=va, fill=f)
InitPadded ==
    /\ \E s \in Datas, mw \in {0, MaxMin}, mh \in {0, MaxMin},
          al \in 1 .. 3, f \in FillArgs :
         call = [op |-> "none", data |-> s, min_width |-> mw, min_height |-> mh,
                 fill |-> f,
                 A |-> Str2D(FromStr(s), mw, mh, HAlignSeq[al], VAlignSeq[al], f)]
    /\ result = Idle
    /\ source = Idle /\ data3 = Idle /\ stackedFrom = Idle /\ viewed = Idle
    /\ G = Idle /\ cur = Idle /\ chain = Idle /\ more = FALSE
    /\ heap = Idle /\ grids = Idle /\ mask = Idle /\ punched = Idle

\* A.expand(x, y)
ExpandPadded ==
    /\ call.op = "none"
    /\ \E x \in 0 .. MaxPad, y \in 0 .. MaxPad :
         /\ call' = [call EXCEPT !.op = "expand"] @@ [x |-> x, y |-> y]
         /\ result' = expand(call.A, x, y, "constant")
    /\ UNCHANGED <<stackVars, chainVars, heapVars, maskVars>>

\* A + B
AddPadded ==
    /\ call.op = "none"
    /\ \E tb \in OtherTexts, al \in 1 .. 3, fb \in OtherFills :
         LET B == Str2D(FromStr(tb), 0, 0, HAlignSeq[al], VAlignSeq[al], fb)
         IN  /\ call' = [call EXCEPT !.op = "add"] @@ [B |-> B, fillB |-> fb]
             /\ result' = __add__(call.A, B, FALSE)
    /\ UNCHANGED <<stackVars, chainVars, heapVars, maskVars>>

\* A / B
DivPadded ==
    /\ call.op = "none"
    /\ \E tb \in OtherTexts, al \in 1 .. 3, fb \in OtherFills :
         LET B == Str2D(FromStr(tb), 0, 0, HAlignSeq[al], VAlignSeq[al], fb)
         IN  /\ call' = [call EXCEPT !.op = "div"] @@ [B |-> B, fillB |-> fb]
             /\ result' = __truediv__(call.A, B, FALSE)
    /\ UNCHANGED <<stackVars, chainVars, heapVars, maskVars>>

\* A + text
AddStrPadded ==
    /\ call.op = "none"
    /\ \E text \in Strs :
         /\ call' = [call EXCEPT !.op = "add"] @@ [text |-> text]
         /\ result' = __add__(call.A, FromStr(text), FALSE)
    /\ UNCHANGED <<stackVars, chainVars, heapVars, maskVars>>

\* A / text
DivStrPadded ==
    /\ call.op = "none"
    /\ \E text \in Strs :
         /\ call' = [call EXCEPT !.op = "div"] @@ [text |-> text]
         /\ result' = __truediv__(call.A, FromStr(text), FALSE)
    /\ UNCHANGED <<stackVars, chainVars, heapVars, maskVars>>

NextPadded ==
    ExpandPadded \/ AddPadded \/ DivPadded \/ AddStrPadded \/ DivStrPadded

SpecPadded == InitPadded /\ [][NextPadded]_vars

----------------------------------------------------------------------------
(* Claims about the cells added as padding *)

\* the cell a fill argument stands for: not visible unless given as (char, 1)
FillCellOf(fill) ==
    CASE fill.kind = "None" -> Cell(" ", 0)
      [] fill.kind = "str" -> Cell(fill.char[1], 0)
      [] fill.kind = "tuple" -> Cell(fill.char[1], fill.alpha)

\* the cell at p of the grid built from the text of c: a character of the
\* text, visible, or the fill
BuiltCell(c, p) ==
    LET lines == splitlines(c.data)
        n == Len(lines)
        W == Max(Longest(lines), c.min_width)
        H == Max(n, c.min_height)
        k == p[1] - Offset(c.A.valign, H, n) + 1
        j == IF k \in 1 .. n THEN p[2] - Offset(c.A.halign, W, Len(lines[k])) + 1
             ELSE 0
    IN  IF k \in 1 .. n /\ j \in 1 .. Len(lines[k])
        THEN Cell(lines[k][j], 1)
        ELSE FillCellOf(c.fill)

\* the cell at p of the grid g padded to (H, W) by its alignment with `fill`
PaddedWith(g, fill, H, W, p) ==
    LET q == <<p[1] - Offset(g.valign, H, g.data.h),
               p[2] - Offset(g.halign, W, g.data.w)>>
    IN  IF q \in Idx(g.data.h, g.data.w) THEN g.data.at[q] ELSE fill

\* the cells of the grid built from text: text cells visible, the rest fill
BuiltCells ==
    \A p \in Idx(height(call.A), width(call.A)) :
        call.A.data.at[p] = BuiltCell(call, p)

\* the cells of A.expand(x, y): those of A, the rest A's fill
ExpandedCells ==
    call.op = "expand" =>
        \E top \in 0 .. call.y, left \in 0 .. call.x :
            \A p \in Idx(height(result), width(result)) :
                LET q == <<p[1] - top, p[2] - left>>
                IN  result.data.at[p] =
                        IF q \in Idx(height(call.A), width(call.A))
                        THEN call.A.data.at[q] ELSE FillCellOf(call.fill)

\* the cells of A + other and A / other: the part from A holds A padded with
\* A's fill, the part from other holds other padded with `fill`
JoinedCells(other, fill) ==
    LET A == call.A
        H == Max(height(A), height(other))
        W == Max(width(A), width(other))
    IN  IF call.op = "add"
        THEN /\ \A p \in Idx(H, width(A)) :
                  result.data.at[p] = PaddedWith(A, FillCellOf(call.fill), H, width(A), p)
             /\ \A p \in Idx(H, width(other)) :
                  result.data.at[<<p[1], width(A) + p[2]>>]
                      = PaddedWith(other, fill, H, width(other), p)
        ELSE /\ \A p \in Idx(height(A), W) :
                  result.data.at[p] = PaddedWith(A, FillCellOf(call.fill), height(A), W, p)
             /\ \A p \in Idx(height(other), W) :
                  result.data.at[<<height(A) + p[1], p[2]>>]
                      = PaddedWith(other, fill, height(other), W, p)

\* the cells of A + text and A / text when the lifted text is padded by
\* repeating its last row (+) or last column (/)
JoinedEdgeCells ==
    LET A == call.A
        L == LiftedText(call.text)
        H == Max(height(A), height(L))
        W == Max(width(A), width(L))
    IN  IF call.op = "add"
        THEN /\ \A p \in Idx(H, width(A)) :
                  result.data.at[p] = PaddedWith(A, FillCellOf(call.fill), H, width(A), p)
             /\ \A p \in Idx(H, width(L)) :
                  result.data.at[<<p[1], width(A) + p[2]>>]
                      = L.data.at[<<Clamp(p[1], height(L)), p[2]>>]
        ELSE /\ \A p \in Idx(height(A), W) :
                  result.data.at[p] = PaddedWith(A, FillCellOf(call.fill), height(A), W, p)
             /\ \A p \in Idx(height(L), W) :
                  result.data.at[<<height(A) + p[1], p[2]>>]
                      = L.data.at[<<p[1], Clamp(p[2], width(L))>>]

\* C21 as stated: every cell introduced as padding (by min_width and
\* min_height, by short lines, by expand, by the equalization of + and /)
\* holds the fill of the grid it pads, not visible unless the fill was given
\* as (char, 1), and every cell holding a character of the text is visible;
\* for a str operand the padded grid is the default-filled Str2D(text).
C21_PaddingHoldsFill ==
    /\ BuiltCells
    /\ ExpandedCells
    /\ (call.op \in {"add", "div"} /\ "B" \in DOMAIN call) =>
            JoinedCells(call.B, FillCellOf(call.fillB))
    /\ (call.op \in {"add", "div"} /\ "text" \in DOMAIN call /\ ~IsError(result)) =>
            JoinedCells(LiftedText(call.text), Cell(" ", 0))

\* C21, amended: as stated for construction, expand and + and / between two
\* grids; when the other operand of + or / is a str and a grid is returned,
\* A is padded with its fill and the cells added to the lifted text repeat
\* the text's last row (+) or last column (/) instead of holding a fill.
C21_PaddingHoldsFillButStrRepeats ==
    /\ BuiltCells
    /\ ExpandedCells
    /\ (call.op \in {"add", "div"} /\ "B" \in DOMAIN call) =>
            JoinedCells(call.B, FillCellOf(call.fillB))
    /\ (call.op \in {"add", "div"} /\ "text" \in DOMAIN call /\ ~IsError(result)) =>
            JoinedEdgeCells

\* a grid built with fill 'x' from a text with a short line was joined to a
\* taller grid whose fill is ('.', 1): its padding is 'x' and not visible
C21_Witness ==
    /\ call.op = "add" /\ "B" \in DOMAIN call
    /\ call.fill = FillStr(<<"x">>)
    /\ call.data = <<"a">> /\ call.min_width = MaxMin /\ call.min_height = 0
    /\ height(call.B) = 2 /\ call.B.valign = "top"
    /\ result.data.at[<<0, 0>>] = Cell("a", 1)
    /\ result.data.at[<<0, 1>>] = Cell("x", 0)
    /\ result.data.at[<<1, 0>>] = Cell("x", 0)

----------------------------------------------------------------------------
(* Operations on the characters and the visibility of a grid *)

\* Str2D.hide(char): a copy of the data whose cells holding char are not
\* visible
hide(self, char) ==
    LET data == [h |-> self.data.h, w |-> self.data.w,
                 at |-> [p \in Idx(self.data.h, self.data.w) |->
                           IF self.data.at[p].char = char
                           THEN Cell(char, 0) ELSE self.data.at[p]]]
    IN  WithKwargs(data, self)

\* fill_with that keeps the visibility of the cells
fill_with_keeping_alpha(self, char) ==
    LET c == IF char = <<>> THEN "" ELSE char[1]
        data == [h |-> self.data.h, w |-> self.data.w,
                 at |-> [p \in Idx(self.data.h, self.data.w) |->
                           IF self.data.at[p].alpha = 1 THEN self.data.at[p]
                           ELSE Cell(c, 0)]]
    IN  Str2D(FromArray(data), 0, 0, self.halign, self.valign, FillTuple(char, 0))

\* Str2D.fill_with(char): np.where(alpha, char field, char) is an array of
\* characters, which Str2D takes as all visible; the fill becomes (char, 0)
fill_with(self, char) ==
    LET c == IF char = <<>> THEN "" ELSE char[1]
        data == [h |-> self.data.h, w |-> self.data.w,
                 at |-> [p \in Idx(self.data.h, self.data.w) |->
                           IF self.data.at[p].alpha = 1 THEN self.data.at[p].char
                           ELSE c]]
    IN  Str2D(FromChars(data), 0, 0, self.halign, self.valign, FillTuple(char, 0))

\* str.lower and str.upper on one character
lower_char(c) == CASE c = "A" -> "a" [] c = "B" -> "b" [] OTHER -> c
upper_char(c) == CASE c = "a" -> "A" [] c = "b" -> "B" [] OTHER -> c

\* Str2D.lower(): np.char.lower on the char field of a copy
lower(self) ==
    WithKwargs([h |-> self.data.h, w |-> self.data.w,
                at |-> [p \in Idx(self.data.h, self.data.w) |->
                          Cell(lower_char(self.data.at[p].char), self.data.at[p].alpha)]],
               self)

\* Str2D.upper(): np.char.upper on the char field of a copy
upper(self) ==
    WithKwargs([h |-> self.data.h, w |-> self.data.w,
                at |-> [p \in Idx(self.data.h, self.data.w) |->
                          Cell(upper_char(self.data.at[p].char), self.data.at[p].alpha)]],
               self)

\* Str2D.replace(old, new): old and new, two str, must have the same length;
\* np.char.replace on cells of one character replaces a cell equal to old
replace(self, old, new) ==
    IF Len(old) # Len(new) THEN ValueError
    ELSE WithKwargs([h |-> self.data.h, w |-> self.data.w,
                     at |-> [p \in Idx(self.data.h, self.data.w) |->
                               IF Len(old) = 1 /\ self.data.at[p].char = old[1]
                               THEN Cell(new[1], self.data.at[p].alpha)
                               ELSE self.data.at[p]]],
                    self)

----------------------------------------------------------------------------
(* Arrays as numpy holds them: an ndarray is a view over a buffer *)

\* an ndarray is [base |-> id of its buffer, idx |-> the array of the buffer
\* positions its cells are read from]; a buffer is a function from positions
\* to cells; the heap is the sequence of the buffers allocated so far

\* the index array of an array that owns its buffer
OwnIndex(hh, ww) == [h |-> hh, w |-> ww, at |-> [p \in Idx(hh, ww) |-> p]]

\* the cells an ndarray shows
Value(hp, nd) ==
    [h |-> nd.idx.h, w |-> nd.idx.w,
     at |-> [p \in Idx(nd.idx.h, nd.idx.w) |-> hp[nd.base][nd.idx.at[p]]]]

\* a numpy call that returns a new array (np.empty, ndarray.copy, np.pad,
\* np.hstack, np.vstack, np.roll, np.where, indexing with a list)
NewArray(hp, value) ==
    [heap |-> Append(hp, value.at),
     nd |-> [base |-> Len(hp) + 1, idx |-> OwnIndex(value.h, value.w)]]

\* a numpy call that returns a view (ndarray.T, np.fliplr, np.flipud, a
\* slice, np.split): the same buffer read through other positions
ViewOf(nd, idx) == [base |-> nd.base, idx |-> idx]

\* Str2D.parse over the heap: data.data of a Str2D as it is, data.copy() of
\* a structured array, a new structured array for an array of characters
parse_in(hp, data) ==
    IF data.kind = "Str2D" THEN [heap |-> hp, nd |-> data.obj.data]
    ELSE IF data.kind = "ndarray" THEN NewArray(hp, Value(hp, data.arr))
    ELSE NewArray(hp, struct_array_from_char_array(data.arr))

\* struct_pad that hands back the array it was given when no cell is added
struct_pad_in_place(hp, array, top, bottom, left, right, fill) ==
    IF top + bottom + left + right = 0 THEN [heap |-> hp, nd |-> array]
    ELSE NewArray(hp, struct_pad(Value(hp, array), top, bottom, left, right,
                                 fill, "constant"))

\* Str2D.struct_pad over the heap: padded_data = np.empty(...) is a new
\* array, whatever the pad widths
struct_pad_in(hp, array, top, bottom, left, right, fill) ==
    NewArray(hp, struct_pad(Value(hp, array), top, bottom, left, right,
                            fill, "constant"))

\* Str2D(data=data, halign=, valign=, fill=) over the heap, min_width and
\* min_height left out, so that every pad width is 0: self.data is the array
\* struct_pad returns
Str2D_in(hp, data, halign, valign, fill) ==
    LET parsed == parse_in(hp, data)
        padded == struct_pad_in(parsed.heap, parsed.nd, 0, 0, 0, 0, fill)
    IN  [heap |-> padded.heap,
         obj |-> [data |-> padded.nd, halign |-> halign, valign |-> valign,
                  fill |-> fill, cached |-> <<>>]]

\* a Str2D object of the heap as the grid it shows
Shown(hp, obj) ==
    [data |-> Value(hp, obj.data), halign |-> obj.halign, valign |-> obj.valign,
     fill |-> obj.fill]

\* return Str2D(data=data, ...) in a method whose result is the grid made:
\* the new object joins the objects held, nothing is built when the method
\* raised
Returned(hp, gs, data, made) ==
    IF IsError(made) THEN [heap |-> hp, grids |-> gs, out |-> made]
    ELSE LET built == Str2D_in(hp, data, made.halign, made.valign, made.fill)
         IN  [heap |-> built.heap, grids |-> Append(gs, built.obj),
              out |-> Len(gs) + 1]

\* the same when data is an array that numpy has just made
ReturnedNew(hp, gs, made) ==
    IF IsError(made) THEN [heap |-> hp, grids |-> gs, out |-> made]
    ELSE LET a == NewArray(hp, made.data)
         IN  Returned(a.heap, gs, FromArray(a.nd), made)

\* a cached_property p of the object k: computed on the first read, which
\* stores the result in the object, and read from there afterwards
Cached(st, k, p, computed) ==
    IF p \in DOMAIN st.grids[k].cached
    THEN [st EXCEPT !.out = st.grids[k].cached[p]]
    ELSE [computed EXCEPT !.grids[k].cached = (p :> computed.out) @@ @]

\* Str2D.t over the heap: data.T is a view
t_in(st, k) ==
    LET g == st.grids[k]
    IN  Cached(st, k, "t",
               Returned(st.heap, st.grids,
                        FromArray(ViewOf(g.data, Transpose(g.data.idx))),
                        t(Shown(st.heap, g))))

\* Str2D.h over the heap: np.fliplr is a view
h_in(st, k) ==
    LET g == st.grids[k]
    IN  Cached(st, k, "h",
               Returned(st.heap, st.grids,
                        FromArray(ViewOf(g.data, fliplr(g.data.idx))),
                        h(Shown(st.heap, g))))

\* Str2D.v over the heap: np.flipud is a view
v_in(st, k) ==
    LET g == st.grids[k]
    IN  Cached(st, k, "v",
               Returned(st.heap, st.grids,
                        FromArray(ViewOf(g.data, flipud(g.data.idx))),
                        v(Shown(st.heap, g))))

\* Str2D.r over the heap: self.t.h
r_in(st, k) ==
    LET turned == t_in(st, k)
    IN  Cached(st, k, "r", h_in(turned, turned.out))

\* Str2D.__getitem__ over the heap: two slices give a view, a key with a
\* list gives a new array
getitem_in(st, k, key) ==
    LET g == st.grids[k]
        made == __getitem__(Shown(st.heap, g), key)
        rowk == IF key.kind = "tuple" THEN key.keys[1] ELSE key
        colk == IF key.kind = "tuple" THEN key.keys[2] ELSE SliceKey(None, None)
    IN  IF IsError(made) THEN [st EXCEPT !.out = made]
        ELSE IF rowk.kind = "slice" /\ colk.kind = "slice"
        THEN Returned(st.heap, st.grids,
                      FromArray(ViewOf(g.data,
                                       Sub(g.data.idx, Take(rowk, g.data.idx.h),
                                           Take(colk, g.data.idx.w)))),
                      made)
        ELSE ReturnedNew(st.heap, st.grids, made)

\* Str2D.split over the heap: np.split gives views, one Str2D is made of each
RECURSIVE split_from(_, _, _, _)
split_from(st, k, pieces, m) ==
    IF m > Len(pieces) THEN st
    ELSE LET g == st.grids[k]
             sub == Returned(st.heap, st.grids,
                             FromArray(ViewOf(g.data, pieces[m])),
                             Shown(st.heap, [g EXCEPT !.data = ViewOf(g.data, pieces[m])]))
         IN  split_from([sub EXCEPT !.out = Append(st.out, sub.out)], k, pieces, m + 1)

split_in(st, k, indices_or_sections, axis) ==
    split_from([st EXCEPT !.out = <<>>], k,
               np_split(st.grids[k].data.idx, indices_or_sections, axis), 1)

----------------------------------------------------------------------------
(* A caller holds grids, calls the operations that make grids, and writes *)
(* to the cells of a grid it holds *)

\* calls made in one behaviour
MaxCalls == 1

\* the grids the caller starts with: A built from a text with a short line,
\* B a single visible cell
HeldTexts == {<<"a", "B", "\n", "a">>, <<"a", "B">>}

InitHeld ==
    /\ \E s \in HeldTexts, al \in 1 .. 3 :
         LET A == ReturnedNew(<<>>, <<>>,
                              Str2D(FromStr(s), 0, 0, HAlignSeq[al], VAlignSeq[al],
                                    FillNone))
             B == ReturnedNew(A.heap, A.grids,
                              Str2D(FromStr(<<"B">>), 0, 0, "center", "middle",
                                    FillTuple(<<".">>, 1)))
         IN  heap = B.heap /\ grids = B.grids
    /\ call = [op |-> "none", n |-> 0]
    /\ result = Idle
    /\ source = Idle /\ data3 = Idle /\ stackedFrom = Idle /\ viewed = Idle
    /\ G = Idle /\ cur = Idle /\ chain = Idle /\ more = FALSE
    /\ mask = Idle /\ punched = Idle

Held == [heap |-> heap, grids |-> grids, out |-> Idle]

\* one call: the state it leaves and what it returned
Called(name, k, st) ==
    /\ call.op # "poke" /\ call.n < MaxCalls
    /\ call' = [op |-> name, n |-> call.n + 1, k |-> k]
    /\ heap' = st.heap
    /\ grids' = st.grids
    /\ result' = st.out
    /\ UNCHANGED <<stackVars, chainVars, maskVars>>

\* grids[k] + grids[j]: np.hstack makes the array
CallAdd ==
    \E k \in DOMAIN grids, j \in DOMAIN grids :
        Called("add", k, ReturnedNew(heap, grids,
                   __add__(Shown(heap, grids[k]), Shown(heap, grids[j]), FALSE)))

\* grids[k] / grids[j]: np.vstack makes the array
CallDiv ==
    \E k \in DOMAIN grids, j \in DOMAIN grids :
        Called("div", k, ReturnedNew(heap, grids,
                   __truediv__(Shown(heap, grids[k]), Shown(heap, grids[j]), FALSE)))

\* grids[k] * n and n * grids[k]
CallMul ==
    \E k \in DOMAIN grids, n \in {0, 2} :
        Called("mul", k, ReturnedNew(heap, grids, __mul__(Shown(heap, grids[k]), n)))

CallRmul ==
    \E k \in DOMAIN grids, n \in {0, 2} :
        Called("rmul", k, ReturnedNew(heap, grids, __rmul__(Shown(heap, grids[k]), n)))

\* grids[k].pad(((top, bottom), (left, right))): struct_pad makes the array
CallPad ==
    \E k \in DOMAIN grids, top \in {0, 1}, right \in {0, 1} :
        Called("pad", k, ReturnedNew(heap, grids,
                   pad(Shown(heap, grids[k]), top, 0, 0, right, grids[k].fill,
                       "constant")))

\* grids[k].expand(x, y)
CallExpand ==
    \E k \in DOMAIN grids, x \in {0, 1}, y \in {0, 1} :
        Called("expand", k, ReturnedNew(heap, grids,
                   expand(Shown(heap, grids[k]), x, y, "constant")))

\* grids[k].roll(x, axis): np.roll makes the array
CallRoll ==
    \E k \in DOMAIN grids, x \in {0, 1}, axis \in {0, 1} :
        Called("roll", k, ReturnedNew(heap, grids,
                   roll(Shown(heap, grids[k]), x, axis)))

\* grids[k].split(indices, axis)
CallSplit ==
    \E k \in DOMAIN grids, cuts \in {<<>>, <<1>>}, axis \in {0, 1} :
        Called("split", k, split_in(Held, k, cuts, axis))

\* grids[k][key]
CallGetItem ==
    \E k \in DOMAIN grids,
       key \in {SliceKey(None, None), SliceKey(<<1>>, None),
                TupleKey(SliceKey(None, None), SliceKey(<<0>>, <<1>>)),
                TupleKey(IntKey(0), SliceKey(None, None)),
                TupleKey(SliceKey(None, None), IntKey(1)),
                TupleKey(IntKey(0), IntKey(0)), IntKey(0), IntKey(2)} :
        Called("getitem", k, getitem_in(Held, k, key))

\* grids[k].t, .h, .v, .r
CallT == \E k \in DOMAIN grids : Called("t", k, t_in(Held, k))
CallH == \E k \in DOMAIN grids : Called("h", k, h_in(Held, k))
CallV == \E k \in DOMAIN grids : Called("v", k, v_in(Held, k))
CallR == \E k \in DOMAIN grids : Called("r", k, r_in(Held, k))

\* grids[k].hide(char): a copy of the data is changed
CallHide ==
    \E k \in DOMAIN grids, char \in {"a", " "} :
        Called("hide", k, ReturnedNew(heap, grids, hide(Shown(heap, grids[k]), char)))

\* grids[k].fill_with(char): np.where makes the array of characters
CallFillWith ==
    \E k \in DOMAIN grids, char \in {<<".">>, <<>>} :
        LET made == fill_with(Shown(heap, grids[k]), char)
        IN  Called("fill_with", k,
                   IF IsError(made) THEN [Held EXCEPT !.out = made]
                   ELSE Returned(heap, grids, FromChars(CharField(made.data)), made))

\* grids[k].lower(), .upper(), .replace(old, new): a copy of the data is changed
CallLower ==
    \E k \in DOMAIN grids :
        Called("lower", k, ReturnedNew(heap, grids, lower(Shown(heap, grids[k]))))

CallUpper ==
    \E k \in DOMAIN grids :
        Called("upper", k, ReturnedNew(heap, grids, upper(Shown(heap, grids[k]))))

CallReplace ==
    \E k \in DOMAIN grids, old \in {<<"a">>, <<"a", "B">>}, new \in {<<"c">>} :
        Called("replace", k, ReturnedNew(heap, grids,
                   replace(Shown(heap, grids[k]), old, new)))

\* Str2D(grids[k]): construction from another Str2D, which takes the
\* default halign, valign and fill
CallStr2D ==
    \E k \in DOMAIN grids :
        Called("Str2D", k,
               Returned(heap, grids, FromStr2D(grids[k]),
                        Str2D(FromStr2D(Shown(heap, grids[k])), 0, 0, "left", "top",
                              FillNone)))

\* grids[k].data[p] = ('#', 1): the caller writes to a cell of a grid
Poke ==
    /\ call.op # "poke"
    /\ \E k \in DOMAIN grids :
        \E p \in Idx(grids[k].data.idx.h, grids[k].data.idx.w) :
            /\ call' = [op |-> "poke", n |-> call.n, k |-> k]
            /\ heap' = [heap EXCEPT ![grids[k].data.base][grids[k].data.idx.at[p]]
                                        = Cell("#", 1)]
    /\ UNCHANGED <<grids, result, stackVars, chainVars, maskVars>>

NextHeld ==
    \/ CallAdd \/ CallDiv \/ CallMul \/ CallRmul \/ CallPad \/ CallExpand
    \/ CallRoll \/ CallSplit \/ CallGetItem \/ CallT \/ CallH \/ CallV \/ CallR
    \/ CallHide \/ CallFillWith \/ CallLower \/ CallUpper \/ CallReplace
    \/ CallStr2D \/ Poke

SpecHeld == InitHeld /\ [][NextHeld]_vars

----------------------------------------------------------------------------
(* Claims about the operands of an operation and the storage of its result *)

\* C22: every operation that makes a grid (+, /, *, pad, expand, roll, split,
\* indexing, t, h, v, r, hide, fill_with, lower, upper, replace, Str2D(G))
\* leaves the cells, halign, valign and fill of every grid held before it as
\* they were; no two grids held read their cells from the same buffer; and a
\* write to a cell of one grid changes the cells of no other grid.
C22_OperandsKeptStorageFresh ==
    [][/\ call'.op # "poke" =>
            \A k \in DOMAIN grids :
                /\ k \in DOMAIN grids'
                /\ Shown(heap', grids'[k]) = Shown(heap, grids[k])
       /\ \A j \in DOMAIN grids', k \in DOMAIN grids' :
            j # k => grids'[j].data.base # grids'[k].data.base
       /\ call'.op = "poke" =>
            \A k \in DOMAIN grids :
                k # call'.k => Shown(heap', grids'[k]) = Shown(heap, grids[k])
      ]_vars

\* a grid was made by transposing a held grid, then a cell of the held grid
\* was overwritten: the transposed grid still shows the old cell
C22_Witness ==
    /\ call.op = "poke" /\ call.k = 1
    /\ Len(grids) = 3
    /\ "t" \in DOMAIN grids[1].cached
    /\ Shown(heap, grids[1]).data.at[<<0, 0>>] = Cell("#", 1)
    /\ Shown(heap, grids[3]).data.at[<<0, 0>>] = Cell("a", 1)

----------------------------------------------------------------------------
(* Box: a grid of box-drawing glyphs built from two partitions *)

\* panes of one axis of a Box
MaxPanes == 2

\* BoxParts(*glyphs): the glyphs of a style in the order v, h, ul, ur, lr,
\* ll, l, r, t, b, c.  A box-drawing character is written as its Unicode
\* code point.
BoxParts(g) ==
    [v |-> g[1], h |-> g[2], ul |-> g[3], ur |-> g[4], lr |-> g[5], ll |-> g[6],
     l |-> g[7], r |-> g[8], t |-> g[9], b |-> g[10], c |-> g[11]]

\* BoxStyle: two of its members
BoxStyle ==
    [SINGLE_ROUND |-> BoxParts(<<"2502", "2500", "256D", "256E", "256F", "2570",
                                 "251C", "2524", "252C", "2534", "253C">>),
     DOUBLE |-> BoxParts(<<"2551", "2550", "2554", "2557", "255D", "255A",
                           "2560", "2563", "2566", "2569", "256C">>)]

Styles == {"SINGLE_ROUND", "DOUBLE"}

\* sum(spec[:k])
RECURSIVE SumTo(_, _)
SumTo(spec, k) == IF k = 0 THEN 0 ELSE spec[k] + SumTo(spec, k - 1)

\* spec[::-1]
Reverse(spec) == [k \in 1 .. Len(spec) |-> spec[Len(spec) + 1 - k]]

\* Box.spec_to_positions(spec): 0 and, after each pane, the position of the
\* line that closes it
spec_to_positions(spec) ==
    <<0>> \o [k \in 1 .. Len(spec) |-> k + SumTo(spec, k)]

\* Box.spec_to_len(spec)
spec_to_len(spec) == SumTo(spec, Len(spec)) + Len(spec) + 1

\* data[rows, cols] = cell for the cells whose row is in rows and whose
\* column is in cols
Assigned(data, rows, cols, cell) ==
    [data EXCEPT !.at = [p \in DOMAIN data.at |->
                           IF p[1] \in rows /\ p[2] \in cols THEN cell
                           ELSE data.at[p]]]

\* Box.assign_box_char: the assignments in the order of the code, a later
\* one overwriting an earlier one
assign_box_char(data, pos_v, pos_h, chars) ==
    LET every_row == 0 .. (data.h - 1)
        every_col == 0 .. (data.w - 1)
        lines_v == {pos_v[k] : k \in 1 .. Len(pos_v)}
        lines_h == {pos_h[k] : k \in 1 .. Len(pos_h)}
        inner_v == {pos_v[k] : k \in 2 .. (Len(pos_v) - 1)}
        inner_h == {pos_h[k] : k \in 2 .. (Len(pos_h) - 1)}
        last_row == data.h - 1
        last_col == data.w - 1
        d1 == Assigned(data, every_row, lines_h, Cell(chars.v, 1))
        d2 == Assigned(d1, lines_v, every_col, Cell(chars.h, 1))
        d3 == Assigned(d2, {0}, lines_h, Cell(chars.t, 1))
        d4 == Assigned(d3, {last_row}, lines_h, Cell(chars.b, 1))
        d5 == Assigned(d4, lines_v, {0}, Cell(chars.l, 1))
        d6 == Assigned(d5, lines_v, {last_col}, Cell(chars.r, 1))
        d7 == Assigned(d6, inner_v, inner_h, Cell(chars.c, 1))
        d8 == Assigned(d7, {0}, {0}, Cell(chars.ul, 1))
        d9 == Assigned(d8, {0}, {last_col}, Cell(chars.ur, 1))
        d10 == Assigned(d9, {last_row}, {0}, Cell(chars.ll, 1))
    IN  Assigned(d10, {last_row}, {last_col}, Cell(chars.lr, 1))

\* Box(spec_v, spec_h, style) for two lists that are not empty and a style
\* named by a member of BoxStyle: a Str2D of hidden blanks on which the
\* glyphs are assigned
Box(spec_v, spec_h, style) ==
    LET hh == spec_to_len(spec_v)
        ww == spec_to_len(spec_h)
        blank == [h |-> hh, w |-> ww, at |-> [p \in Idx(hh, ww) |-> Cell(" ", 0)]]
        base == Str2DDefault(blank)
    IN  [data |-> assign_box_char(base.data, spec_to_positions(spec_v),
                                  spec_to_positions(spec_h), BoxStyle[style]),
         halign |-> base.halign, valign |-> base.valign, fill |-> base.fill,
         spec_v |-> spec_v, spec_h |-> spec_h, style |-> style]

\* Box.t
Box_t(self) == Box(self.spec_h, self.spec_v, self.style)

\* Box.h that keeps the order of the columns
Box_h_unreversed(self) == Box(self.spec_v, self.spec_h, self.style)

\* Box.h
Box_h(self) == Box(self.spec_v, Reverse(self.spec_h), self.style)

\* Box.v
Box_v(self) == Box(Reverse(self.spec_v), self.spec_h, self.style)

\* Box.r
Box_r(self) == Box_h(Box_t(self))

----------------------------------------------------------------------------
(* An attribute chain B.<letters> on a Box *)

\* the partitions: up to MaxPanes panes, each empty or one cell across
PaneSizes == {0, 1}
Specs == UNION {[1 .. n -> PaneSizes] : n \in 1 .. MaxPanes}

InitBox ==
    /\ \E spec_v \in Specs, spec_h \in Specs, style \in Styles :
         G = Box(spec_v, spec_h, style)
    /\ cur = G
    /\ chain = <<>>
    /\ more = FALSE
    /\ heap = Idle /\ grids = Idle /\ mask = Idle /\ punched = Idle
    /\ source = Idle /\ data3 = Idle /\ stackedFrom = Idle /\ viewed = Idle
    /\ call = NoCall /\ result = Idle

\* one letter p of the chain, recorded as in Step
StepBox(p, next) ==
    /\ cur' = next
    /\ IF ~more /\ Len(chain) < MaxChain /\ (chain = <<>> \/ chain[1] = p)
       THEN chain' = Append(chain, p) /\ more' = FALSE
       ELSE chain' = <<>> /\ more' = TRUE
    /\ UNCHANGED <<G, stackVars, callVars, heapVars, maskVars>>

BoxT == StepBox("t", Box_t(cur))
BoxH == StepBox("h", Box_h(cur))
BoxV == StepBox("v", Box_v(cur))
BoxR == StepBox("r", Box_r(cur))

NextBox == BoxT \/ BoxH \/ BoxV \/ BoxR

SpecBox == InitBox /\ [][NextBox]_vars

----------------------------------------------------------------------------
(* Claims about Box *)

\* the positions of the lines of a partition
LinesOfSpec(spec) == {0} \cup {k + SumTo(spec, k) : k \in 1 .. Len(spec)}

\* the glyph of a style at p in the box of two partitions, by where p lies
GlyphAt(spec_v, spec_h, style, p) ==
    LET chars == BoxStyle[style]
        last_row == SumTo(spec_v, Len(spec_v)) + Len(spec_v)
        last_col == SumTo(spec_h, Len(spec_h)) + Len(spec_h)
        on_row == p[1] \in LinesOfSpec(spec_v)
        on_col == p[2] \in LinesOfSpec(spec_h)
    IN  CASE ~on_row /\ ~on_col -> " "
          [] on_row /\ ~on_col -> chars.h
          [] ~on_row /\ on_col -> chars.v
          [] p = <<0, 0>> -> chars.ul
          [] p = <<0, last_col>> -> chars.ur
          [] p = <<last_row, 0>> -> chars.ll
          [] p = <<last_row, last_col>> -> chars.lr
          [] p[1] = 0 -> chars.t
          [] p[1] = last_row -> chars.b
          [] p[2] = 0 -> chars.l
          [] p[2] = last_col -> chars.r
          [] OTHER -> chars.c

\* the box has the glyphs of its own partitions and style
Regenerated(B) ==
    \A p \in Idx(height(B), width(B)) :
        B.data.at[p].char = GlyphAt(B.spec_v, B.spec_h, B.style, p)

\* C23: B.t has the partitions of B swapped, B.h the column partition
\* reversed, B.v the row partition reversed, each drawn with the glyphs of
\* the style of B at the places its own partitions give; B.t.t, B.h.h, B.v.v
\* and B.r.r.r.r have the partitions and the character matrix of B.
C23_BoxTransformations ==
    /\ cur.style = G.style /\ Regenerated(cur)
    /\ (~more /\ chain = <<"t">>) =>
            cur.spec_v = G.spec_h /\ cur.spec_h = G.spec_v
    /\ (~more /\ chain = <<"h">>) =>
            cur.spec_v = G.spec_v /\ cur.spec_h = Reverse(G.spec_h)
    /\ (~more /\ chain = <<"v">>) =>
            cur.spec_v = Reverse(G.spec_v) /\ cur.spec_h = G.spec_h
    /\ (~more /\ chain \in {<<"t", "t">>, <<"h", "h">>, <<"v", "v">>,
                            <<"r", "r", "r", "r">>}) =>
            /\ cur.spec_v = G.spec_v /\ cur.spec_h = G.spec_h
            /\ CharField(cur.data) = CharField(G.data)

\* a box of two unequal columns over one row was flipped: the columns are
\* reversed and the box is not the mirror image of its cells
C23_Witness ==
    /\ ~more /\ chain = <<"h">>
    /\ G.spec_h = <<0, 1>> /\ G.spec_v = <<1>>
    /\ cur.spec_h = <<1, 0>>
    /\ CharField(cur.data) # CharField(fliplr(G.data))

----------------------------------------------------------------------------
(* One call of G.box_around(style), then a read of the view of the Str3D *)

\* Str2D.box_around(style): the Str3D of a Box of one pane of the size of
\* the grid and of the grid padded by one cell on each side with its fill
box_around(self, style) ==
    LET s == pad(self, 1, 1, 1, 1, self.fill, "constant")
        box == Box(<<height(self)>>, <<width(self)>>, style)
        data == <<box, s>>
    IN  [source |-> data, data |-> np_stack(LayerArrays(data))]

\* A.box_around(style).view
BoxAround ==
    /\ call.op = "none"
    /\ \E style \in Styles :
         /\ call' = [call EXCEPT !.op = "box_around"] @@ [style |-> style]
         /\ result' = view(box_around(call.A, style).data)
    /\ UNCHANGED <<stackVars, chainVars, heapVars, maskVars>>

NextBoxAround == BoxAround

SpecBoxAround == InitPadded /\ [][NextBoxAround]_vars

----------------------------------------------------------------------------
(* Claims about box_around *)

\* the cells of the outer ring of a grid of h + 2 rows and w + 2 columns
Ring(hh, ww) ==
    {p \in Idx(hh + 2, ww + 2) : p[1] \in {0, hh + 1} \/ p[2] \in {0, ww + 1}}

\* the view of A.box_around(style) has two rows and two columns more than A
\* and the glyphs of the style on its outer ring
Framed ==
    /\ height(result) = height(call.A) + 2
    /\ width(result) = width(call.A) + 2
    /\ \A p \in Ring(height(call.A), width(call.A)) :
          result.data.at[p].char
              = GlyphAt(<<height(call.A)>>, <<width(call.A)>>, call.style, p)

\* C24: the view of G.box_around(style) has shape (G.height + 2, G.width + 2),
\* the glyphs of the style on its outer ring, and at (i + 1, j + 1) the
\* character of G at (i, j), for every cell of G.
C24_BoxAroundKeepsContent ==
    call.op = "box_around" =>
        /\ Framed
        /\ \A p \in Idx(height(call.A), width(call.A)) :
              result.data.at[<<p[1] + 1, p[2] + 1>>].char = call.A.data.at[p].char

\* the same for the visible cells of G; where G is not visible the view has
\* the blank of the box
C24_BoxAroundKeepsVisibleContent ==
    call.op = "box_around" =>
        /\ Framed
        /\ \A p \in Idx(height(call.A), width(call.A)) :
              result.data.at[<<p[1] + 1, p[2] + 1>>].char
                  = IF call.A.data.at[p].alpha = 1 THEN call.A.data.at[p].char
                    ELSE " "

----------------------------------------------------------------------------
(* One call of G.roll_h or G.roll_v *)

\* Str2D.__hash__: the class defines __eq__ and no __hash__, so Python sets
\* its __hash__ to None
Str2D__hash__ == None

\* functools.lru_cache around a method of Str2D: the key of the cache is built
\* from the arguments, self among them, and hashing self is a TypeError when
\* __hash__ is None; the method runs otherwise
lru_cache(returned) == IF Str2D__hash__ = None THEN TypeError ELSE returned

\* Str2D.roll_h(x)
roll_h(self, x) == lru_cache(roll(self, x, 1))

\* Str2D.roll_v(x)
roll_v(self, x) == lru_cache(roll(self, x, 0))

\* A.roll_h(n)
RollH ==
    /\ call.op = "none"
    /\ \E n \in (-MaxRoll) .. MaxRoll :
         /\ call' = [op |-> "roll_h", A |-> call.A, x |-> n]
         /\ result' = roll_h(call.A, n)
    /\ UNCHANGED <<stackVars, chainVars, heapVars, maskVars>>

\* A.roll_v(n)
RollV ==
    /\ call.op = "none"
    /\ \E n \in (-MaxRoll) .. MaxRoll :
         /\ call' = [op |-> "roll_v", A |-> call.A, x |-> n]
         /\ result' = roll_v(call.A, n)
    /\ UNCHANGED <<stackVars, chainVars, heapVars, maskVars>>

NextRollHV == RollH \/ RollV

SpecRollHV == InitRoll /\ [][NextRollHV]_vars

----------------------------------------------------------------------------
(* Claims about roll_h and roll_v *)

\* C25: G.roll_h(x) returns the grid G.roll(x, axis=1) returns, and
\* G.roll_v(x) the grid G.roll(x, axis=0) returns.
C25_RollHVAreRoll ==
    /\ call.op = "roll_h" => result = roll(call.A, call.x, 1)
    /\ call.op = "roll_v" => result = roll(call.A, call.x, 0)

----------------------------------------------------------------------------
(* Mask (src/masking/mask.py): a sequence of SOLID and PUNCHED positions *)

\* positions of a Mask, and successful _punch_mask calls followed on one Mask
MaxSize == 3
MaxPunches == 3

AssertionError == [error |-> "AssertionError"]

\* Perforation.toggle
toggle(perf) == IF perf = "SOLID" THEN "PUNCHED" ELSE "SOLID"

\* Mask(size) for size > 0: a blank, whose _mask is a list of SOLID
Mask(size) ==
    [size |-> size,
     _mask |-> [type |-> "list", elts |-> [k \in 1 .. size |-> "SOLID"]],
     punched_repr |-> "^", solid_repr |-> "-"]

\* Mask.is_a_blank
is_a_blank(self) == \A k \in 1 .. Len(self._mask.elts) : self._mask.elts[k] = "SOLID"

\* Mask._punch_mask(pattern): the mask after the call, or AssertionError; the
\* new _mask is a tuple
_punch_mask(self, pattern) ==
    IF ~is_a_blank(self) THEN AssertionError
    ELSE IF Len(pattern) # self.size THEN AssertionError
    ELSE [self EXCEPT !._mask =
            [type |-> "tuple",
             elts |-> [k \in 1 .. Len(pattern) |->
                         IF pattern[k] THEN "PUNCHED" ELSE "SOLID"]]]

\* Mask.__eq__(self, other) for a Mask other: a list and a tuple are not
\* equal in Python, whatever they hold
Mask__eq__(self, other) ==
    /\ self._mask = other._mask
    /\ self.punched_repr = other.punched_repr
    /\ self.solid_repr = other.solid_repr

\* Mask.invert: a new blank of the same size, punched where self is solid
invert(self) ==
    _punch_mask(Mask(self.size),
                [k \in 1 .. Len(self._mask.elts) |->
                    toggle(self._mask.elts[k]) = "PUNCHED"])

----------------------------------------------------------------------------
(* A Mask that its holder punches and inverts *)

Patterns == UNION {[1 .. n -> BOOLEAN] : n \in 1 .. MaxSize}

\* m = Mask(size)
InitMask ==
    /\ \E size \in 1 .. MaxSize : mask = Mask(size)
    /\ punched = 0
    /\ call = NoCall /\ result = Idle
    /\ source = Idle /\ data3 = Idle /\ stackedFrom = Idle /\ viewed = Idle
    /\ G = Idle /\ cur = Idle /\ chain = Idle /\ more = FALSE
    /\ heap = Idle /\ grids = Idle

\* m._punch_mask(pattern)
PunchMask ==
    /\ punched < MaxPunches
    /\ \E pattern \in Patterns :
         LET after == _punch_mask(mask, pattern)
         IN  /\ call' = [op |-> "_punch_mask", pattern |-> pattern]
             /\ IF IsError(after)
                THEN mask' = mask /\ punched' = punched /\ result' = after
                ELSE mask' = after /\ punched' = punched + 1 /\ result' = None
    /\ UNCHANGED <<stackVars, chainVars, heapVars>>

\* m.invert()
Invert ==
    /\ call' = [op |-> "invert"]
    /\ result' = invert(mask)
    /\ UNCHANGED <<mask, punched, stackVars, chainVars, heapVars>>

NextMask == PunchMask \/ Invert

SpecMask == InitMask /\ [][NextMask]_vars

----------------------------------------------------------------------------
(* Claims about Mask *)

\* C26: m.invert() returns a Mask of the size of m in which every position is
\* toggled, m is left as it was, and m.invert().invert() == m.
C26_InvertTogglesAndReverts ==
    [][call'.op = "invert" =>
         /\ mask' = mask
         /\ ~IsError(result')
         /\ result'.size = mask.size
         /\ \A k \in 1 .. mask.size :
               result'._mask.elts[k] # mask._mask.elts[k]
         /\ Mask__eq__(invert(result'), mask)
      ]_vars

\* C27: once a _punch_mask call has succeeded on a Mask, every later
\* _punch_mask call on it fails its assertion and leaves the pattern as it was.
C27_PunchedAtMostOnce ==
    [][(punched >= 1 /\ call'.op = "_punch_mask") =>
         /\ IsError(result')
         /\ mask' = mask
      ]_vars

----------------------------------------------------------------------------
(* Claims about the alignment of a transformed grid *)

\* the fixed table of t: top <-> left, middle <-> center, bottom <-> right
Counterpart(align) ==
    CASE align = "top" -> "left" [] align = "left" -> "top"
      [] align = "middle" -> "center" [] align = "center" -> "middle"
      [] align = "bottom" -> "right" [] align = "right" -> "bottom"

\* left <-> right and top <-> bottom, center and middle kept
Opposite(align) ==
    CASE align = "left" -> "right" [] align = "right" -> "left"
      [] align = "top" -> "bottom" [] align = "bottom" -> "top"
      [] OTHER -> align

\* C28: G.t has halign = map(G.valign) and valign = map(G.halign) under
\* top <-> left, middle <-> center, bottom <-> right; G.h has left and right
\* swapped in halign and the valign of G; G.v has top and bottom swapped in
\* valign and the halign of G; all three have the fill of G.
C28_AlignmentRemapped ==
    /\ (~more /\ chain = <<"t">>) =>
            /\ cur.halign = Counterpart(G.valign)
            /\ cur.valign = Counterpart(G.halign)
            /\ cur.fill = G.fill
    /\ (~more /\ chain = <<"h">>) =>
            /\ cur.halign = Opposite(G.halign)
            /\ cur.valign = G.valign
            /\ cur.fill = G.fill
    /\ (~more /\ chain = <<"v">>) =>
            /\ cur.halign = G.halign
            /\ cur.valign = Opposite(G.valign)
            /\ cur.fill = G.fill

\* a grid aligned right and middle with a visible fill was transposed
C28_Witness ==
    /\ ~more /\ chain = <<"t">>
    /\ G.halign = "right" /\ G.valign = "middle"
    /\ G.fill = Cell(".", 1)
    /\ cur.halign = "center" /\ cur.valign = "bottom"

----------------------------------------------------------------------------
(* One call of + or / with A on the left, or of text + A or text / A *)

\* the grids B of A + B and A / B, built from a text with their own
\* alignments and fill
Others ==
    {Str2D(FromStr(tb), 0, 0, HAlignSeq[al], VAlignSeq[al], fb) :
        tb \in OtherTexts, al \in 1 .. 3, fb \in FillArgs}

\* A + B: A.__add__(B) runs
AddOther ==
    /\ call.op = "none"
    /\ \E B \in Others :
         /\ call' = [op |-> "add", A |-> call.A, B |-> B]
         /\ result' = __add__(call.A, B, FALSE)
    /\ UNCHANGED <<stackVars, chainVars, heapVars, maskVars>>

\* A / B: A.__truediv__(B) runs
DivOther ==
    /\ call.op = "none"
    /\ \E B \in Others :
         /\ call' = [op |-> "div", A |-> call.A, B |-> B]
         /\ result' = __truediv__(call.A, B, FALSE)
    /\ UNCHANGED <<stackVars, chainVars, heapVars, maskVars>>

\* text + A: str.__add__ does not take a Str2D, so A.__radd__(text) runs
RaddStr ==
    /\ call.op = "none"
    /\ \E text \in Strs :
         /\ call' = [op |-> "radd", A |-> call.A, text |-> text]
         /\ result' = __radd__(call.A, FromStr(text))
    /\ UNCHANGED <<stackVars, chainVars, heapVars, maskVars>>

\* text / A: A.__rtruediv__(text) runs
RtruedivStr ==
    /\ call.op = "none"
    /\ \E text \in Strs :
         /\ call' = [op |-> "rtruediv", A |-> call.A, text |-> text]
         /\ result' = __rtruediv__(call.A, FromStr(text))
    /\ UNCHANGED <<stackVars, chainVars, heapVars, maskVars>>

NextCarried == AddOther \/ DivOther \/ RaddStr \/ RtruedivStr

SpecCarried == InitCall /\ [][NextCarried]_vars

----------------------------------------------------------------------------
(* Claims about the alignment and fill of a composed grid *)

\* C29: the grid A + B, A / B, text + A or text / A returns has the halign,
\* valign and fill of A, the Str2D whose operator method ran, also when A is
\* the right or the bottom part of the result.
C29_ResultCarriesKwargsOfA ==
    (call.op \in {"add", "div", "radd", "rtruediv"} /\ ~IsError(result)) =>
        /\ result.halign = call.A.halign
        /\ result.valign = call.A.valign
        /\ result.fill = call.A.fill

\* text / A returned a grid whose bottom part is A, aligned right and bottom
\* with a visible fill, none of which Str2D(text) has
C29_Witness ==
    /\ call.op = "rtruediv" /\ ~IsError(result)
    /\ call.text = <<"c">>
    /\ HasCells(call.A)
    /\ call.A.halign = "right" /\ call.A.valign = "bottom"
    /\ call.A.fill = Cell(".", 1)
    /\ result.data.at[<<0, 0>>] = Cell("c", 1)
    /\ result.halign = "right" /\ result.fill = Cell(".", 1)

----------------------------------------------------------------------------
(* fill_with on a built grid, and fill_with on what it returned *)

\* the characters given to fill_with
FillWithChars == {"a", "x", "."}

\* G.fill_with(c), G being the built grid or the built grid with the cells
\* of one character hidden
FillWith ==
    /\ call.op = "none"
    /\ \E grid \in {call.A} \cup {hide(call.A, ch) : ch \in Chars},
          c \in FillWithChars :
         /\ call' = [op |-> "fill_with", G |-> grid, c |-> c]
         /\ result' = fill_with(grid, <<c>>)
    /\ UNCHANGED <<stackVars, chainVars, heapVars, maskVars>>

\* G.fill_with(c).fill_with(d)
FillWithAgain ==
    /\ call.op = "fill_with"
    /\ ~IsError(result)
    /\ \E d \in FillWithChars :
         /\ call' = [op |-> "fill_again", G |-> call.G, c |-> call.c,
                     first |-> result, d |-> d]
         /\ result' = fill_with(result, <<d>>)
    /\ UNCHANGED <<stackVars, chainVars, heapVars, maskVars>>

NextFillWith == FillWith \/ FillWithAgain

SpecFillWith == InitPadded /\ [][NextFillWith]_vars

----------------------------------------------------------------------------
(* Claims about fill_with *)

\* the characters of a grid, cell by cell
CharMatrix(g) ==
    [h |-> g.data.h, w |-> g.data.w,
     at |-> [p \in Idx(g.data.h, g.data.w) |-> g.data.at[p].char]]

\* `made` has the shape of `of`, the character of every visible cell of
\* `of`, c in the place of every other cell, and only visible cells
FilledFrom(made, of, c) ==
    /\ ~IsError(made)
    /\ made.data.h = of.data.h /\ made.data.w = of.data.w
    /\ \A p \in Idx(of.data.h, of.data.w) :
         /\ made.data.at[p].alpha = 1
         /\ made.data.at[p].char =
                IF of.data.at[p].alpha = 1 THEN of.data.at[p].char ELSE c

\* C30: G.fill_with(c) keeps the character of every visible cell of G, has
\* c in every cell that is not visible in G, and all its cells are visible;
\* G.fill_with(c).fill_with(d) has the character matrix of G.fill_with(c).
C30_FillWithFillsHiddenCells ==
    /\ call.op = "fill_with" => FilledFrom(result, call.G, call.c)
    /\ call.op = "fill_again" =>
         /\ FilledFrom(call.first, call.G, call.c)
         /\ ~IsError(result)
         /\ CharMatrix(result) = CharMatrix(call.first)

\* a grid with a visible 'b' and a hidden cell was filled with 'x' and the
\* result was filled with '.', which left the 'x'
C30_Witness ==
    /\ call.op = "fill_again"
    /\ call.c = "x" /\ call.d = "."
    /\ \E p, q \in Idx(call.G.data.h, call.G.data.w) :
         /\ call.G.data.at[p] = Cell("b", 1)
         /\ call.G.data.at[q].alpha = 0 /\ call.G.data.at[q].char # "x"
         /\ result.data.at[p] = Cell("b", 1)
         /\ result.data.at[q] = Cell("x", 1)

====
